---- MODULE Spec2Model ----
(***************************************************************************)
(* Model of the breadth-first web crawler of src/crawler.py (WebCrawler)  *)
(* and of the crawl jobs of the web layer, src/app.py.                    *)
(* A URL string is held as the record of its six urlparse components,     *)
(* each component a sequence of one-character strings, so that            *)
(* lower-casing, prefix and suffix tests are computed character by        *)
(* character as str.lower, str.startswith and str.endswith compute them.  *)
(***************************************************************************)
EXTENDS Integers, Sequences, FiniteSets, TLC

\* ------------------------------------------------------------------------
\* Bounds of the model
\* ------------------------------------------------------------------------
MaxDepthBound == 2      \* max_depth is drawn from -1 .. MaxDepthBound
MaxPagesBound == 4      \* max_pages is drawn from -1 .. MaxPagesBound
MaxCrawls == 2          \* crawl() is called at most MaxCrawls times on the instance

\* ------------------------------------------------------------------------
\* Character strings
\* ------------------------------------------------------------------------
UpperLetters ==
  <<"A","B","C","D","E","F","G","H","I","J","K","L","M",
    "N","O","P","Q","R","S","T","U","V","W","X","Y","Z">>
LowerLetters ==
  <<"a","b","c","d","e","f","g","h","i","j","k","l","m",
    "n","o","p","q","r","s","t","u","v","w","x","y","z">>

\* str.lower() on one character
LowerChar(c) ==
  IF \E i \in 1..26 : UpperLetters[i] = c
  THEN LowerLetters[CHOOSE i \in 1..26 : UpperLetters[i] = c]
  ELSE c

\* str.lower()
Lower(s) == [i \in 1..Len(s) |-> LowerChar(s[i])]

\* str.startswith(pre)
StartsWith(s, pre) ==
  /\ Len(pre) <= Len(s)
  /\ \A i \in 1..Len(pre) : s[i] = pre[i]

\* str.endswith(suf)
EndsWith(s, suf) ==
  /\ Len(suf) <= Len(s)
  /\ \A i \in 1..Len(suf) : s[Len(s) - Len(suf) + i] = suf[i]

\* c in s
HasChar(s, c) == \E i \in 1..Len(s) : s[i] = c

\* ------------------------------------------------------------------------
\* The strings of the model
\* ------------------------------------------------------------------------
http == <<"h","t","t","p">>
https == <<"h","t","t","p","s">>
HTTP_UPPER == <<"H","T","T","P">>
a_co == <<"a",".","c","o">>
A_co == <<"A",".","c","o">>
b_co == <<"b",".","c","o">>
s_a_co == <<"s",".","a",".","c","o">>
bad_host == <<"[","x">>
p_root == <<"/">>
p_p == <<"/","p">>
p_q == <<"/","q">>
p_r == <<"/","r">>
p_s == <<"/","s">>
p_x == <<"/","x">>
p_pdf == <<"/","d",".","P","D","F">>
frag_t == <<"t">>

\* a URL string: scheme "://" netloc path ";" params "?" query "#" fragment
\* (an empty scheme means the string has no "scheme://" prefix)
Url(scheme, netloc, path, fragment) ==
  [scheme |-> scheme, netloc |-> netloc, path |-> path,
   params |-> <<>>, query |-> <<>>, fragment |-> fragment]

\* ------------------------------------------------------------------------
\* URL Normalizer
\* ------------------------------------------------------------------------
\* url.startswith(('http://', 'https://'))
HasHttpPrefix(url) == url.scheme \in {http, https}

\* urlparse('https://' + url) for a url without an http(s):// prefix:
\* a url that already carries another scheme keeps it as text, "scheme:"
\* becomes the netloc and "//netloc/path" the path
PrependHttps(url) ==
  IF url.scheme = <<>>
  THEN [url EXCEPT !.scheme = https]
  ELSE [url EXCEPT !.scheme = https,
                   !.netloc = url.scheme \o <<":">>,
                   !.path = <<"/","/">> \o url.netloc \o url.path]

normalize_url(url) ==
  LET parsed == IF HasHttpPrefix(url) THEN url ELSE PrependHttps(url)
  IN [scheme |-> parsed.scheme,
      netloc |-> Lower(parsed.netloc),
      path |-> parsed.path,
      params |-> parsed.params,
      query |-> parsed.query,
      fragment |-> <<>>]

\* ------------------------------------------------------------------------
\* Configuration and state of one WebCrawler instance
\* ------------------------------------------------------------------------
VARIABLES
  start_url,        \* self.start_url (normalized seed)
  max_depth,        \* self.max_depth
  max_pages,        \* self.max_pages
  delay,            \* self.delay
  respect_robots,   \* self.respect_robots
  allowed_domains,  \* self.allowed_domains
  visited_urls,     \* self.visited_urls
  crawled_data,     \* self.crawled_data (the result list)
  robots_cache,     \* self.robots_cache: host -> parsed policy
  crawl_queue,      \* local deque of crawl(): sequence of [url, depth]
  pages_crawled,    \* local counter of crawl()
  current,          \* (current_url, depth) of the running iteration
  pc,               \* position in crawl(): idle, loop, fetch, rate, done (returned),
                    \* raised (left by an exception), blocked (in a call that
                    \* does not return)
  calls,            \* number of crawl() calls made on the instance
  fetch_log,        \* history: one entry per _fetch_page call
  deq_log,          \* history: one entry per popleft of the running crawl()
  robots_log,       \* history: the robots.txt requests, host and outcome of read()
  link_log,         \* history: normalized targets of the hrefs processed
  sleeps,           \* history: number of time.sleep calls
  first_run,        \* summary of the crawl of an earlier instance on the same web
  probe,            \* a call of one method on its own: its arguments and result
  crawl_status,     \* app.py: crawl_status, job_id -> status entry
  crawl_results,    \* app.py: crawl_results, job_id -> results entry
  crawl_jobs,       \* the crawl_jobs table: rows in the order of their id
  clock,            \* int(time.time()) of the web server
  submissions,      \* the POST /api/crawl requests and their crawler threads
  writers,          \* history: which submission assigned the entries of a job_id
  client            \* history: what a polling client was answered

config == <<start_url, max_depth, max_pages, delay, respect_robots, allowed_domains>>
instance == <<visited_urls, crawled_data, robots_cache>>
history == <<fetch_log, deq_log, robots_log, link_log, sleeps>>
web == <<crawl_status, crawl_results, crawl_jobs, clock, submissions, writers, client>>
vars == <<config, instance, crawl_queue, pages_crawled, current, pc, calls, history,
          first_run, probe, web>>

\* ------------------------------------------------------------------------
\* Scope Filter
\* ------------------------------------------------------------------------
skip_extensions == {
    <<".","p","d","f">>, <<".","d","o","c">>, <<".","d","o","c","x">>, <<".","x","l","s">>,
    <<".","x","l","s","x">>, <<".","p","p","t">>, <<".","p","p","t","x">>, <<".","z","i","p">>,
    <<".","t","a","r">>, <<".","g","z">>, <<".","r","a","r">>, <<".","e","x","e">>,
    <<".","d","m","g">>, <<".","j","p","g">>, <<".","j","p","e","g">>, <<".","p","n","g">>,
    <<".","g","i","f">>, <<".","b","m","p">>, <<".","s","v","g">>, <<".","m","p","3">>,
    <<".","m","p","4">>, <<".","a","v","i">>, <<".","m","o","v">>, <<".","w","m","v">>,
    <<".","c","s","s">>, <<".","j","s">>, <<".","x","m","l">>, <<".","r","s","s">>,
    <<".","j","s","o","n">> }

\* the filter with a suffix match of the host instead of set membership
is_valid_url_suffix(url) ==
  /\ Lower(url.scheme) \in {http, https}
  /\ \E d \in allowed_domains : EndsWith(url.netloc, d)
  /\ LET path == Lower(url.path)
     IN ~ \E ext \in skip_extensions : EndsWith(path, ext)

\* _is_valid_url(url); urlparse delivers the scheme in lower case
is_valid_url(url) ==
  /\ Lower(url.scheme) \in {http, https}
  /\ url.netloc \in allowed_domains
  /\ LET path == Lower(url.path)
     IN ~ \E ext \in skip_extensions : EndsWith(path, ext)

\* ------------------------------------------------------------------------
\* Robots Gate
\* ------------------------------------------------------------------------
\* what RobotFileParser.read() can do for a host: raise (timeout, connection
\* or decoding error), answer 401/403, 404, 5xx, or deliver a document, given
\* here by the path prefixes it disallows for the crawler's user agent
RobotsDocs == { {p_p} }
ReadOutcomes ==
  [kind : {"raise", "401", "404", "500"}, disallow : {{}}]
    \cup [kind : {"200"}, disallow : RobotsDocs]

\* the parser object that read() leaves behind
ParsedRobots(outcome) ==
  CASE outcome.kind = "401" -> [kind |-> "disallow_all", disallow |-> {}]
    [] outcome.kind = "404" -> [kind |-> "allow_all", disallow |-> {}]
    [] outcome.kind = "500" -> [kind |-> "unread", disallow |-> {}]
    [] OTHER -> [kind |-> "rules", disallow |-> outcome.disallow]

\* RobotFileParser.can_fetch(user_agent, url)
RobotsAllows(rp, url) ==
  LET path == IF url.path = <<>> THEN p_root ELSE url.path
  IN CASE rp.kind = "disallow_all" -> FALSE
       [] rp.kind = "allow_all" -> TRUE
       [] rp.kind = "unread" -> FALSE
       [] OTHER -> ~ \E pre \in rp.disallow : StartsWith(path, pre)

\* _can_fetch with the test of the respect_robots flag inverted
can_fetch_inverted(url, cache, outcome) ==
  IF respect_robots
  THEN [allowed |-> TRUE, cache |-> cache, requested |-> FALSE]
  ELSE IF url.netloc \notin DOMAIN cache
       THEN IF outcome.kind = "raise"
            THEN [allowed |-> TRUE, cache |-> cache, requested |-> TRUE]
            ELSE LET rp == ParsedRobots(outcome)
                 IN [allowed |-> RobotsAllows(rp, url),
                     cache |-> (url.netloc :> rp) @@ cache,
                     requested |-> TRUE]
       ELSE [allowed |-> RobotsAllows(cache[url.netloc], url),
             cache |-> cache, requested |-> FALSE]

\* _can_fetch(url): the verdict, the cache afterwards and whether robots.txt
\* was requested, for the given outcome of read()
can_fetch(url, cache, outcome) ==
  IF ~ respect_robots
  THEN [allowed |-> TRUE, cache |-> cache, requested |-> FALSE]
  ELSE IF url.netloc \notin DOMAIN cache
       THEN IF outcome.kind = "raise"
            THEN [allowed |-> TRUE, cache |-> cache, requested |-> TRUE]
            ELSE LET rp == ParsedRobots(outcome)
                 IN [allowed |-> RobotsAllows(rp, url),
                     cache |-> (url.netloc :> rp) @@ cache,
                     requested |-> TRUE]
       ELSE [allowed |-> RobotsAllows(cache[url.netloc], url),
             cache |-> cache, requested |-> FALSE]

\* ------------------------------------------------------------------------
\* The web that is crawled: the anchors of each page, in document order
\* ------------------------------------------------------------------------
Rel(path) == Url(<<>>, <<>>, path, <<>>)      \* href="/path"
FragOnly(f) == Url(<<>>, <<>>, <<>>, f)       \* href="#f"
EmptyHref == Url(<<>>, <<>>, <<>>, <<>>)      \* href=""
Page(netloc, path) == Url(https, netloc, path, <<>>)

Web(url) ==
  CASE url = Page(a_co, p_root) ->
         << Rel(p_p), Url(https, A_co, p_q, frag_t), Url(https, b_co, p_x, <<>>),
            Rel(p_pdf), FragOnly(frag_t), EmptyHref,
            Url(https, bad_host, p_root, <<>>), Rel(p_r) >>
    [] url = Page(a_co, p_p) ->
         << Rel(p_q), Rel(p_root), Url(HTTP_UPPER, a_co, p_q, <<>>), Rel(p_r) >>
    [] url = Page(a_co, p_q) ->
         << Rel(p_r), Url(https, bad_host, p_root, <<>>), Rel(p_s) >>
    [] url = Page(a_co, p_r) ->
         << Rel(p_root) >>
    [] url = Page(b_co, p_x) ->
         << FragOnly(frag_t), Url(https, a_co, p_p, <<>>),
            Url(https, a_co, p_root, <<>>), Url(https, s_a_co, p_root, <<>>) >>
    [] OTHER -> << >>

\* ------------------------------------------------------------------------
\* Link Extractor
\* ------------------------------------------------------------------------
\* the position of the first c in s, Len(s) + 1 when there is none
Find(s, c) ==
  IF HasChar(s, c) THEN CHOOSE i \in 1..Len(s) : s[i] = c /\ \A j \in 1..(i - 1) : s[j] # c
  ELSE Len(s) + 1

\* str.split(sep)
RECURSIVE Split(_, _)
Split(s, sep) ==
  IF ~ HasChar(s, sep) THEN <<s>>
  ELSE <<SubSeq(s, 1, Find(s, sep) - 1)>> \o Split(SubSeq(s, Find(s, sep) + 1, Len(s)), sep)

DecimalChars == <<"0","1","2","3","4","5","6","7","8","9">>
HexChars ==
  { DecimalChars[i] : i \in 1..10 } \cup {"a","b","c","d","e","f","A","B","C","D","E","F"}

\* int() of a string of decimal digits
RECURSIVE DecimalValue(_)
DecimalValue(s) ==
  IF s = << >> THEN 0
  ELSE 10 * DecimalValue(SubSeq(s, 1, Len(s) - 1))
         + (CHOOSE i \in 1..10 : DecimalChars[i] = s[Len(s)]) - 1

\* ipaddress.IPv4Address(s) is accepted: four octets of at most three decimal
\* digits, without leading zeros, each at most 255
IsIPv4(s) ==
  LET octets == Split(s, ".") IN
    /\ Len(octets) = 4
    /\ \A k \in 1..4 :
         /\ octets[k] # << >>
         /\ \A i \in 1..Len(octets[k]) : \E d \in 1..10 : DecimalChars[d] = octets[k][i]
         /\ Len(octets[k]) <= 3
         /\ (octets[k] # <<"0">> => octets[k][1] # "0")
         /\ DecimalValue(octets[k]) <= 255

\* _ip_int_from_string of ipaddress.IPv6Address is accepted
IsIPv6Groups(s) ==
  s # << >> /\
  LET split == Split(s, ":")
      last == split[Len(split)]
      dotted == HasChar(last, ".")
      \* an IPv4 tail stands for two groups
      parts == IF dotted
               THEN SubSeq(split, 1, Len(split) - 1) \o << <<"0">>, <<"0">> >>
               ELSE split
      n == Len(parts)
      skips == { i \in 2..(n - 1) : parts[i] = << >> }
      Hextet(h) == /\ h # << >>
                   /\ Len(h) <= 4
                   /\ \A i \in 1..Len(h) : h[i] \in HexChars
  IN /\ Len(split) >= 3
     /\ dotted => IsIPv4(last)
     /\ n <= 9
     /\ Cardinality(skips) <= 1
     /\ IF skips # {}
        THEN LET skip_index == (CHOOSE i \in skips : TRUE) - 1
                 parts_hi == IF parts[1] = << >> THEN skip_index - 1 ELSE skip_index
                 parts_lo == IF parts[n] = << >> THEN n - skip_index - 2
                             ELSE n - skip_index - 1
             IN /\ parts[1] = << >> => parts_hi = 0
                /\ parts[n] = << >> => parts_lo = 0
                /\ 8 - (parts_hi + parts_lo) >= 1
                /\ \A i \in 1..parts_hi : Hextet(parts[i])
                /\ \A i \in (n - parts_lo + 1)..n : Hextet(parts[i])
        ELSE /\ n = 8
             /\ \A i \in 1..n : Hextet(parts[i])

\* ipaddress.ip_address(s) returns an IPv6Address: no "/", a scope id after
\* "%" that is not empty and holds no "%", and the groups of an address
IsIPv6(s) ==
  /\ ~ HasChar(s, "/")
  /\ LET at == Find(s, "%")
         scope_id == SubSeq(s, at + 1, Len(s))
     IN /\ HasChar(s, "%") => (scope_id # << >> /\ ~ HasChar(scope_id, "%"))
        /\ IsIPv6Groups(SubSeq(s, 1, at - 1))

\* re.match(r"\Av[a-fA-F0-9]+\..+\Z", hostname)
IsIPvFuture(hostname) ==
  \E k \in 3..(Len(hostname) - 1) :
    /\ hostname[k] = "."
    /\ \A i \in 2..(k - 1) : hostname[i] \in HexChars

\* _check_bracketed_host(hostname) raises
BracketedHostRaises(hostname) ==
  IF hostname # << >> /\ hostname[1] = "v"
  THEN ~ IsIPvFuture(hostname)
  ELSE ~ IsIPv6(hostname)

\* the position of the last c in s, 0 when there is none
RFind(s, c) ==
  IF HasChar(s, c) THEN CHOOSE i \in 1..Len(s) : s[i] = c /\ \A j \in (i + 1)..Len(s) : s[j] # c
  ELSE 0

\* _check_bracketed_netloc(netloc) raises: text before the "[" of the host,
\* text other than a port after its "]", or a host that is no IPv6 or
\* IPvFuture literal; the host is what follows the last "@"
BracketedNetlocRaises(netloc) ==
  LET hostname_and_port == SubSeq(netloc, RFind(netloc, "@") + 1, Len(netloc))
      before_bracket == SubSeq(hostname_and_port, 1, Find(hostname_and_port, "[") - 1)
      bracketed == SubSeq(hostname_and_port, Find(hostname_and_port, "[") + 1,
                          Len(hostname_and_port))
      port == SubSeq(bracketed, Find(bracketed, "]") + 1, Len(bracketed))
  IN IF HasChar(hostname_and_port, "[")
     THEN \/ before_bracket # << >>
          \/ port # << >> /\ port[1] # ":"
          \/ BracketedHostRaises(SubSeq(bracketed, 1, Find(bracketed, "]") - 1))
     ELSE BracketedHostRaises(
            SubSeq(hostname_and_port, 1, Find(hostname_and_port, ":") - 1))

\* what urlsplit checks in a netloc that holds brackets depends on the
\* interpreter that runs the crawler: only that each bracket has its partner
\* (up to 3.11.3), also the host between the first "[" and the next "]"
\* (_check_bracketed_host, 3.11.4 to 3.13.0), or the whole netloc
\* (_check_bracketed_netloc, later releases and patched builds)
UrlsplitChecks == {"brackets", "host", "netloc"}

\* urlsplit raises ValueError under the given check
UrlRaises(href, check) ==
  LET netloc == href.netloc
      after == SubSeq(netloc, Find(netloc, "[") + 1, Len(netloc))
      bracketed_host == SubSeq(after, 1, Find(after, "]") - 1)
  IN IF HasChar(netloc, "[") # HasChar(netloc, "]") THEN TRUE
     ELSE IF ~ HasChar(netloc, "[") \/ check = "brackets" THEN FALSE
     ELSE IF check = "host" THEN BracketedHostRaises(bracketed_host)
     ELSE BracketedNetlocRaises(netloc)

\* urljoin(base_url, href) for a base with an http(s) scheme and an href that
\* is absolute, path-absolute or only a fragment
urljoin(base, href) ==
  IF href.scheme # <<>>
  THEN IF Lower(href.scheme) # base.scheme
       THEN href
       ELSE [href EXCEPT !.scheme = Lower(href.scheme)]
  ELSE IF href.path = <<>> /\ href.params = <<>>
       THEN [base EXCEPT !.query = IF href.query = <<>> THEN base.query ELSE href.query,
                         !.fragment = href.fragment]
       ELSE [href EXCEPT !.scheme = base.scheme, !.netloc = base.netloc]

\* the loop of _extract_links over the anchors from position i on; an href
\* that makes urljoin raise ends the loop with the links found so far
RECURSIVE ExtractFrom(_, _, _, _, _)
ExtractFrom(hrefs, base_url, i, links, check) ==
  IF i > Len(hrefs) THEN links
  ELSE IF hrefs[i] = EmptyHref THEN ExtractFrom(hrefs, base_url, i + 1, links, check)
  ELSE IF UrlRaises(hrefs[i], check) THEN links
  ELSE LET normalized_url == normalize_url(urljoin(base_url, hrefs[i]))
       IN ExtractFrom(hrefs, base_url, i + 1,
                      IF is_valid_url(normalized_url)
                      THEN links \cup {normalized_url} ELSE links,
                      check)

\* the links returned without the scope filter
extract_links_unfiltered(hrefs, base_url, check) ==
  { normalize_url(urljoin(base_url, hrefs[i])) :
      i \in { j \in 1..Len(hrefs) : hrefs[j] # EmptyHref /\ ~ UrlRaises(hrefs[j], check) } }

extract_links(hrefs, base_url, check) == ExtractFrom(hrefs, base_url, 1, {}, check)

\* the anchors of a page that come before the first href urljoin cannot parse
ParsedHrefs(hrefs, check) ==
  IF \E j \in 1..Len(hrefs) : UrlRaises(hrefs[j], check)
  THEN SubSeq(hrefs, 1,
         (CHOOSE j \in 1..Len(hrefs) :
            /\ UrlRaises(hrefs[j], check)
            /\ \A k \in 1..(j - 1) : ~ UrlRaises(hrefs[k], check)) - 1)
  ELSE hrefs

\* the urls the loop of _extract_links normalizes, valid or not: the targets
\* of the hrefs before the first one that makes urljoin raise
LinkTargets(hrefs, base_url, check) ==
  LET parsed == ParsedHrefs(hrefs, check)
  IN { normalize_url(urljoin(base_url, parsed[i])) :
         i \in { j \in 1..Len(parsed) : parsed[j] # EmptyHref } }

\* ------------------------------------------------------------------------
\* Construction
\* ------------------------------------------------------------------------
\* the start_url arguments: "A.co/" and "https://b.co/x"
SeedInputs == { Url(<<>>, A_co, p_root, <<>>), Url(https, b_co, p_x, <<>>) }

\* the allowed_domains arguments: None, ["a.co"], ["a.co", "b.co"]
AllowedInputs ==
  { [given |-> FALSE, domains |-> {}],
    [given |-> TRUE, domains |-> {a_co}],
    [given |-> TRUE, domains |-> {a_co, b_co}] }

\* the delay arguments: the default of 1.0 seconds and a negative number,
\* which neither main.py (type=float) nor app.py (float(...)) nor __init__
\* rejects
Delays == {1, -1}

\* no crawl of an earlier instance is on record
NoFirstRun == [done |-> FALSE, gets |-> 0, outcomes |-> {}]

\* no method is called on its own
NoProbe == [op |-> "none", done |-> TRUE]

\* app.py as loaded: no job was submitted
NoJobs ==
  /\ crawl_status = << >>
  /\ crawl_results = << >>
  /\ crawl_jobs = << >>
  /\ clock = 0
  /\ submissions = << >>
  /\ writers = {}
  /\ client = [completed |-> {}, answers |-> {}]

\* WebCrawler.__init__
Construct ==
  /\ \E seed \in SeedInputs, ad \in AllowedInputs :
       /\ start_url = normalize_url(seed)
       /\ allowed_domains = IF ad.given THEN ad.domains
                            ELSE {normalize_url(seed).netloc}
  /\ max_depth \in -1..MaxDepthBound
  /\ max_pages \in -1..MaxPagesBound
  /\ delay \in Delays
  /\ respect_robots \in BOOLEAN
  /\ visited_urls = {}
  /\ crawled_data = << >>
  /\ robots_cache = << >>
  /\ crawl_queue = << >>
  /\ pages_crawled = 0
  /\ current = [url |-> start_url, depth |-> 0]
  /\ pc = "idle"
  /\ calls = 0
  /\ fetch_log = << >>
  /\ deq_log = << >>
  /\ robots_log = << >>
  /\ link_log = {}
  /\ sleeps = 0
  /\ first_run = NoFirstRun

\* a fresh instance on which crawl() can be called
Init == Construct /\ probe = NoProbe /\ NoJobs

\* ------------------------------------------------------------------------
\* Crawl Scheduler: crawl()
\* ------------------------------------------------------------------------
\* crawl() starting from an empty visited set
CrawlStart_forgets ==
  /\ pc \in {"idle", "done", "raised"}
  /\ calls < MaxCrawls
  /\ calls' = calls + 1
  /\ crawl_queue' = << [url |-> start_url, depth |-> 0] >>
  /\ pages_crawled' = 0
  /\ deq_log' = << >>
  /\ visited_urls' = {}
  /\ pc' = "loop"
  /\ UNCHANGED <<web, probe, first_run, config, crawled_data, robots_cache, current, fetch_log,
                 robots_log, link_log, sleeps>>

\* crawl() is called, on a new instance or after an earlier call returned or
\* raised: the queue holds the seed at depth 0
CrawlStart ==
  /\ pc \in {"idle", "done", "raised"}
  /\ calls < MaxCrawls
  /\ calls' = calls + 1
  /\ crawl_queue' = << [url |-> start_url, depth |-> 0] >>
  /\ pages_crawled' = 0
  /\ deq_log' = << >>
  /\ pc' = "loop"
  /\ UNCHANGED <<web, probe, first_run, config, instance, current, fetch_log, robots_log, link_log, sleeps>>

\* the loop condition with the budget test off by one
LoopCondition_offbyone == crawl_queue # << >> /\ pages_crawled <= max_pages

\* while crawl_queue and pages_crawled < self.max_pages
LoopCondition == crawl_queue # << >> /\ pages_crawled < max_pages

\* the visited test left out
AlreadyVisited_never(url) == FALSE

\* if current_url in self.visited_urls: continue
AlreadyVisited(url) == url \in visited_urls

\* the depth test left out
DepthExceeded_never(depth) == FALSE

\* if depth > self.max_depth: continue
DepthExceeded(depth) == depth > max_depth

\* the url not recorded as visited
MarkVisited_forgotten(url) == visited_urls

\* self.visited_urls.add(current_url)
MarkVisited(url) == visited_urls \cup {url}

\* the entry of deq_log for one popleft
DeqEntry(entry) == [url |-> entry.url, depth |-> entry.depth, sleeps |-> sleeps]

\* the loop condition fails: crawl() returns self.crawled_data
LoopExit ==
  /\ pc = "loop"
  /\ ~ LoopCondition
  /\ pc' = "done"
  /\ UNCHANGED <<web, probe, first_run, config, instance, crawl_queue, pages_crawled, current, calls, history>>

\* popleft of an entry whose url was visited before
SkipVisited ==
  /\ pc = "loop"
  /\ LoopCondition
  /\ AlreadyVisited(Head(crawl_queue).url)
  /\ crawl_queue' = Tail(crawl_queue)
  /\ current' = Head(crawl_queue)
  /\ deq_log' = Append(deq_log, DeqEntry(Head(crawl_queue)))
  /\ UNCHANGED <<web, probe, first_run, config, instance, pages_crawled, pc, calls,
                 fetch_log, robots_log, link_log, sleeps>>

\* popleft of an entry that lies deeper than max_depth
SkipDepth ==
  /\ pc = "loop"
  /\ LoopCondition
  /\ ~ AlreadyVisited(Head(crawl_queue).url)
  /\ DepthExceeded(Head(crawl_queue).depth)
  /\ crawl_queue' = Tail(crawl_queue)
  /\ current' = Head(crawl_queue)
  /\ deq_log' = Append(deq_log, DeqEntry(Head(crawl_queue)))
  /\ UNCHANGED <<web, probe, first_run, config, instance, pages_crawled, pc, calls,
                 fetch_log, robots_log, link_log, sleeps>>

\* the entry taken from the tail of the queue instead of its head
Dequeue_fromTail ==
  /\ pc = "loop"
  /\ LoopCondition
  /\ ~ AlreadyVisited(crawl_queue[Len(crawl_queue)].url)
  /\ ~ DepthExceeded(crawl_queue[Len(crawl_queue)].depth)
  /\ crawl_queue' = SubSeq(crawl_queue, 1, Len(crawl_queue) - 1)
  /\ current' = crawl_queue[Len(crawl_queue)]
  /\ visited_urls' = MarkVisited(crawl_queue[Len(crawl_queue)].url)
  /\ deq_log' = Append(deq_log, DeqEntry(crawl_queue[Len(crawl_queue)]))
  /\ pc' = "fetch"
  /\ UNCHANGED <<web, probe, first_run, config, crawled_data, robots_cache, pages_crawled, calls,
                 fetch_log, robots_log, link_log, sleeps>>

\* popleft of an entry that is processed: it is marked as visited
Dequeue ==
  /\ pc = "loop"
  /\ LoopCondition
  /\ ~ AlreadyVisited(Head(crawl_queue).url)
  /\ ~ DepthExceeded(Head(crawl_queue).depth)
  /\ crawl_queue' = Tail(crawl_queue)
  /\ current' = Head(crawl_queue)
  /\ visited_urls' = MarkVisited(Head(crawl_queue).url)
  /\ deq_log' = Append(deq_log, DeqEntry(Head(crawl_queue)))
  /\ pc' = "fetch"
  /\ UNCHANGED <<web, probe, first_run, config, crawled_data, robots_cache, pages_crawled, calls,
                 fetch_log, robots_log, link_log, sleeps>>

\* ------------------------------------------------------------------------
\* Page Fetcher and the handling of its result in crawl()
\* ------------------------------------------------------------------------
\* what session.get / raise_for_status / the content-type test can end in
\* when no page record is produced
FetchFailures == {"timeout", "connection", "http_error", "non_html"}

\* the entry of fetch_log for one _fetch_page call
FetchEntry(allowed, get, ok, status) ==
  [url |-> current.url, depth |-> current.depth,
   allowed |-> allowed, get |-> get, ok |-> ok, status |-> status,
   sleeps |-> sleeps]

\* the robots.txt requests made so far, after one _can_fetch call
RobotsRequests(gate, outcome) ==
  IF gate.requested
  THEN Append(robots_log, [host |-> current.url.netloc, kind |-> outcome.kind,
                           call |-> calls])
  ELSE robots_log

\* the status codes a GET of the url can end with, redirects followed: every
\* page can answer 200 or 404, the page /r also 300 without a Location header
ServerStatuses(url) ==
  IF url = Page(a_co, p_r) THEN {200, 300, 404} ELSE {200, 404}

\* response.raise_for_status() raises HTTPError
RaisesForStatus(status) == 400 <= status /\ status < 600

\* the status codes with which _fetch_page goes on to build a page record
PassingStatuses(url) == { status \in ServerStatuses(url) : ~ RaisesForStatus(status) }

\* page_data of a fetched page
PageData(url, links, status) ==
  [url |-> url, status_code |-> status, links_found |-> Cardinality(links)]

\* the gate's verdict ignored
GateOpen_always(gate) == TRUE

\* if not self._can_fetch(url): return None
GateOpen(gate) == gate.allowed

\* the depth test of the enqueue off by one
BelowMaxDepth_offbyone(depth) == depth <= max_depth

\* if depth < self.max_depth
BelowMaxDepth(depth) == depth < max_depth

\* if link not in self.visited_urls
NewLinks(links) == { link \in links : link \notin visited_urls }

\* the orders in which `for link in result['links']` can iterate over the set
Orderings(S) ==
  { f \in [1..Cardinality(S) -> S] : \A i, j \in 1..Cardinality(S) : i # j => f[i] # f[j] }

\* the links pushed at the head of the queue instead of its tail
Enqueue_atHead(queue, order, depth) ==
  [i \in 1..Len(order) |-> [url |-> order[i], depth |-> depth + 1]] \o queue

\* crawl_queue.append((link, depth + 1)) for every link of order
Enqueue(queue, order, depth) ==
  queue \o [i \in 1..Len(order) |-> [url |-> order[i], depth |-> depth + 1]]

\* a denied url counted against the page budget
FetchRobotsDenied_counted ==
  /\ pc = "fetch"
  /\ \E outcome \in ReadOutcomes :
       LET gate == can_fetch(current.url, robots_cache, outcome)
       IN /\ ~ GateOpen(gate)
          /\ robots_cache' = gate.cache
          /\ robots_log' = RobotsRequests(gate, outcome)
          /\ fetch_log' = Append(fetch_log, FetchEntry(gate.allowed, FALSE, FALSE, 0))
  /\ pages_crawled' = pages_crawled + 1
  /\ pc' = "rate"
  /\ UNCHANGED <<web, probe, first_run, config, visited_urls, crawled_data, crawl_queue,
                 current, calls, deq_log, link_log, sleeps>>

\* _fetch_page returns None because _can_fetch denies the url
FetchRobotsDenied ==
  /\ pc = "fetch"
  /\ \E outcome \in ReadOutcomes :
       LET gate == can_fetch(current.url, robots_cache, outcome)
       IN /\ ~ GateOpen(gate)
          /\ robots_cache' = gate.cache
          /\ robots_log' = RobotsRequests(gate, outcome)
          /\ fetch_log' = Append(fetch_log, FetchEntry(gate.allowed, FALSE, FALSE, 0))
  /\ pc' = "rate"
  /\ UNCHANGED <<web, probe, first_run, config, visited_urls, crawled_data, crawl_queue, pages_crawled,
                 current, calls, deq_log, link_log, sleeps>>

\* _fetch_page returns None after the GET: timeout, connection error, HTTP
\* error status or a content type other than text/html
FetchFailed ==
  /\ pc = "fetch"
  /\ \E outcome \in ReadOutcomes :
       LET gate == can_fetch(current.url, robots_cache, outcome)
       IN /\ GateOpen(gate)
          /\ robots_cache' = gate.cache
          /\ robots_log' = RobotsRequests(gate, outcome)
          /\ \E failure \in FetchFailures :
               fetch_log' = Append(fetch_log, FetchEntry(gate.allowed, TRUE, FALSE, 0))
  /\ pc' = "rate"
  /\ UNCHANGED <<web, probe, first_run, config, visited_urls, crawled_data, crawl_queue, pages_crawled,
                 current, calls, deq_log, link_log, sleeps>>

\* _can_fetch does not return: rp.read() opens robots.txt with urlopen and no
\* timeout, so a server that accepts the connection and never answers blocks
\* the call, and with it crawl(), for good
FetchRobotsStalls ==
  /\ pc = "fetch"
  /\ respect_robots
  /\ current.url.netloc \notin DOMAIN robots_cache
  /\ robots_log' = Append(robots_log, [host |-> current.url.netloc, kind |-> "stall",
                                       call |-> calls])
  /\ pc' = "blocked"
  /\ UNCHANGED <<web, probe, first_run, config, instance, crawl_queue, pages_crawled,
                 current, calls, fetch_log, deq_log, link_log, sleeps>>

\* _fetch_page returns page data and links: the record is appended, the
\* counter incremented and, below max_depth, the unvisited links are queued;
\* the links are those urljoin yields under the check of the interpreter
FetchOk ==
  /\ pc = "fetch"
  /\ \E check \in UrlsplitChecks :
       LET links == extract_links(Web(current.url), current.url, check)
       IN /\ \E outcome \in ReadOutcomes :
               LET gate == can_fetch(current.url, robots_cache, outcome)
               IN /\ GateOpen(gate)
                  /\ robots_cache' = gate.cache
                  /\ robots_log' = RobotsRequests(gate, outcome)
                  /\ \E status \in PassingStatuses(current.url) :
                       /\ fetch_log' = Append(fetch_log,
                                              FetchEntry(gate.allowed, TRUE, TRUE, status))
                       /\ crawled_data' = Append(crawled_data,
                                                 PageData(current.url, links, status))
          /\ pages_crawled' = pages_crawled + 1
          /\ IF BelowMaxDepth(current.depth)
             THEN \E order \in Orderings(NewLinks(links)) :
                    crawl_queue' = Enqueue(crawl_queue, order, current.depth)
             ELSE crawl_queue' = crawl_queue
          /\ link_log' = link_log \cup LinkTargets(Web(current.url), current.url, check)
  /\ pc' = "rate"
  /\ UNCHANGED <<web, probe, first_run, config, visited_urls, current, calls, deq_log, sleeps>>

\* the rate limit passed without sleeping
Sleep_skipped ==
  /\ pc = "rate"
  /\ crawl_queue # << >>
  /\ pc' = "loop"
  /\ UNCHANGED <<web, probe, first_run, config, instance, crawl_queue, pages_crawled, current, calls,
                 fetch_log, deq_log, robots_log, link_log, sleeps>>

\* if crawl_queue: time.sleep(self.delay); for a negative delay time.sleep
\* raises ValueError before it sleeps, and nothing in crawl() catches it
Sleep ==
  /\ pc = "rate"
  /\ crawl_queue # << >>
  /\ IF delay < 0
     THEN sleeps' = sleeps /\ pc' = "raised"
     ELSE sleeps' = sleeps + 1 /\ pc' = "loop"
  /\ UNCHANGED <<web, probe, first_run, config, instance, crawl_queue, pages_crawled, current, calls,
                 fetch_log, deq_log, robots_log, link_log>>

\* the queue is empty: no sleep
NoSleep ==
  /\ pc = "rate"
  /\ crawl_queue = << >>
  /\ pc' = "loop"
  /\ UNCHANGED <<web, probe, first_run, config, instance, crawl_queue, pages_crawled, current, calls, history>>

\* one step of a running crawl()
CrawlStep ==
  \/ LoopExit
  \/ SkipVisited
  \/ SkipDepth
  \/ Dequeue
  \/ FetchRobotsDenied
  \/ FetchFailed
  \/ FetchOk
  \/ FetchRobotsStalls
  \/ Sleep
  \/ NoSleep

Next ==
  \/ CrawlStart
  \/ LoopExit
  \/ SkipVisited
  \/ SkipDepth
  \/ Dequeue
  \/ FetchRobotsDenied
  \/ FetchFailed
  \/ FetchOk
  \/ FetchRobotsStalls
  \/ Sleep
  \/ NoSleep

Spec == Init /\ [][Next]_vars

\* a crawl() that was called runs on while a step of it can be taken: the
\* loop is one sequential thread
FairSpec == Spec /\ WF_vars(CrawlStep)

\* ------------------------------------------------------------------------
\* Two crawls of the same web that differ in the respect_robots flag
\* ------------------------------------------------------------------------
\* the number of page GETs of a fetch log
Gets(log) == Cardinality({ i \in DOMAIN log : log[i].get })

\* what each GET of a fetch log ended in
GetOutcomes(log) ==
  { [url |-> log[i].url, ok |-> log[i].ok, status |-> log[i].status] :
      i \in { j \in DOMAIN log : log[j].get } }

\* the crawl with robots respect enabled has returned: a second WebCrawler is
\* constructed with the same arguments except respect_robots=False
Reconstruct ==
  /\ pc = "done"
  /\ respect_robots
  /\ ~ first_run.done
  /\ first_run' = [done |-> TRUE, gets |-> Gets(fetch_log),
                   outcomes |-> GetOutcomes(fetch_log)]
  /\ respect_robots' = FALSE
  /\ visited_urls' = {}
  /\ crawled_data' = << >>
  /\ robots_cache' = << >>
  /\ crawl_queue' = << >>
  /\ pages_crawled' = 0
  /\ current' = [url |-> start_url, depth |-> 0]
  /\ pc' = "idle"
  /\ calls' = 0
  /\ fetch_log' = << >>
  /\ deq_log' = << >>
  /\ robots_log' = << >>
  /\ link_log' = {}
  /\ sleeps' = 0
  /\ UNCHANGED <<web, probe, start_url, max_depth, max_pages, delay, allowed_domains>>

\* the same web: a url that was requested in the first crawl answers a
\* request of the second crawl in the same way
SameOutcomes ==
  (first_run.done /\ Len(fetch_log') > Len(fetch_log)) =>
    LET entry == fetch_log'[Len(fetch_log')]
    IN \A o \in first_run.outcomes :
         (o.url = entry.url /\ entry.get) =>
           (o.ok = entry.ok /\ o.status = entry.status)

PairInit == Init /\ respect_robots

\* crawl() is called once on each instance
PairCrawlStart == CrawlStart /\ calls = 0

\* the three ends of _fetch_page, on the same web
PairFetchRobotsDenied == FetchRobotsDenied /\ SameOutcomes
PairFetchFailed == FetchFailed /\ SameOutcomes
PairFetchOk == FetchOk /\ SameOutcomes

PairNext ==
  \/ PairCrawlStart
  \/ LoopExit
  \/ SkipVisited
  \/ SkipDepth
  \/ Dequeue
  \/ PairFetchRobotsDenied
  \/ PairFetchFailed
  \/ PairFetchOk
  \/ FetchRobotsStalls
  \/ Sleep
  \/ NoSleep
  \/ Reconstruct

\* crawl() is run once with robots respect enabled and then once, on a new
\* instance, with robots respect disabled
PairSpec == PairInit /\ [][PairNext]_vars

\* ------------------------------------------------------------------------
\* Methods called on their own, on an instance whose crawl() is not running
\* ------------------------------------------------------------------------
\* the instance as it was constructed, for a call that does not depend on the
\* configuration
Plain ==
  /\ start_url = Page(a_co, p_root)
  /\ allowed_domains = {a_co}
  /\ max_depth = 0
  /\ max_pages = 0
  /\ delay = 1
  /\ ~ respect_robots

\* a call of a method that reads the instance at most
Quiet ==
  UNCHANGED <<config, instance, crawl_queue, pages_crawled, current, pc, calls,
              history, first_run>>

\* the strings passed to _normalize_url: with "http://", "https://", "HTTP://"
\* or no scheme prefix, the host in either case, with or without path,
\* params, query and fragment
NormalizeInputs ==
  [scheme : {<< >>, http, https, HTTP_UPPER}, netloc : {a_co, A_co},
   path : {<< >>, p_q}, params : {<< >>, <<"x">>}, query : {<< >>, <<"y">>},
   fragment : {<< >>, frag_t}]

NormalizeInit ==
  /\ Construct
  /\ NoJobs
  /\ Plain
  /\ probe \in [op : {"normalize"}, done : {FALSE},
                args : NormalizeInputs \X NormalizeInputs, out : {<< >>}]

\* self._normalize_url(url) for each of the two strings
NormalizeCall ==
  /\ probe.op = "normalize"
  /\ ~ probe.done
  /\ probe' = [probe EXCEPT !.done = TRUE,
                            !.out = << normalize_url(probe.args[1]),
                                       normalize_url(probe.args[2]) >>]
  /\ Quiet
  /\ UNCHANGED web

NormalizeSpec == NormalizeInit /\ [][NormalizeCall]_vars

\* the urls passed to _is_valid_url: allowed and other hosts, a subdomain,
\* paths with and without an excluded extension in either case, an extension
\* in the query only
ScopeInputs ==
  [scheme : {http, https, <<"f","t","p">>},
   netloc : {a_co, b_co, s_a_co},
   path : {p_root, p_pdf, <<"/","x",".","j","s">>, <<"/","p","d","f">>,
           <<"/","x",".","j","s","p">>},
   params : {<< >>, <<"x">>},
   query : {<< >>, <<"v",".","j","s">>},
   fragment : {<< >>}]

ScopeInit ==
  /\ Construct
  /\ NoJobs
  /\ max_depth = 0
  /\ max_pages = 0
  /\ delay = 1
  /\ ~ respect_robots
  /\ probe \in [op : {"scope"}, done : {FALSE}, args : ScopeInputs, out : {FALSE}]

\* self._is_valid_url(url)
ScopeCall ==
  /\ probe.op = "scope"
  /\ ~ probe.done
  /\ probe' = [probe EXCEPT !.done = TRUE, !.out = is_valid_url(probe.args)]
  /\ Quiet
  /\ UNCHANGED web

ScopeSpec == ScopeInit /\ [][ScopeCall]_vars

\* ------------------------------------------------------------------------
\* Content Searcher
\* ------------------------------------------------------------------------
\* self.search_words as __init__ sets it from its search_words argument
\* (None or a list of strings)
search_words(arg) ==
  IF arg.given /\ arg.words # << >>
  THEN [i \in DOMAIN arg.words |-> Lower(arg.words[i])]
  ELSE << >>

\* the occurrences of word in text from position i on, counted with overlaps
RECURSIVE CountOverlappingFrom(_, _, _)
CountOverlappingFrom(text, word, i) ==
  IF i + Len(word) - 1 > Len(text) THEN 0
  ELSE IF SubSeq(text, i, i + Len(word) - 1) = word
       THEN 1 + CountOverlappingFrom(text, word, i + 1)
       ELSE CountOverlappingFrom(text, word, i + 1)

\* the scan of str.count from position i on: after a match it goes on behind
\* the match
RECURSIVE CountFrom(_, _, _)
CountFrom(text, word, i) ==
  IF i + Len(word) - 1 > Len(text) THEN 0
  ELSE IF SubSeq(text, i, i + Len(word) - 1) = word
       THEN 1 + CountFrom(text, word, i + Len(word))
       ELSE CountFrom(text, word, i + 1)

\* a count that lets occurrences overlap
count_overlapping(text, word) ==
  IF word = << >> THEN Len(text) + 1 ELSE CountOverlappingFrom(text, word, 1)

\* text.count(word); the empty string occurs len(text) + 1 times
count(text, word) ==
  IF word = << >> THEN Len(text) + 1 ELSE CountFrom(text, word, 1)

\* _search_content(text_content) of an instance with the given search_words:
\* a dict from word to count
search_content(words, text_content) ==
  IF words = << >> THEN [word \in {} |-> 0]
  ELSE LET text_lower == Lower(text_content)
       IN [word \in { words[i] : i \in DOMAIN words } |-> count(text_lower, word)]

Letters == {"a", "A", "b"}
MaxTextLen == 4
MaxWordLen == 2

\* "Cat cat CATs" and "cat"
text_cats == <<"C","a","t"," ","c","a","t"," ","C","A","T","s">>
word_cat == <<"c","a","t">>

TextInputs ==
  UNION { [1..n -> Letters] : n \in 0..MaxTextLen } \cup {text_cats}

WordInputs ==
  UNION { [1..n -> Letters] : n \in 0..MaxWordLen } \cup {word_cat, <<"C","a","t">>}

\* the search_words arguments: None, [], one word, some lists of two words
SearchWordsInputs ==
  { [given |-> FALSE, words |-> << >>], [given |-> TRUE, words |-> << >>] }
    \cup { [given |-> TRUE, words |-> <<w>>] : w \in WordInputs }
    \cup { [given |-> TRUE, words |-> <<w, <<"a">>>>] : w \in { <<"A">>, <<"a">>, <<"b","a">> } }

SearchInit ==
  /\ Construct
  /\ NoJobs
  /\ Plain
  /\ probe \in [op : {"search"}, done : {FALSE},
                args : [words : SearchWordsInputs, text : TextInputs],
                out : {<< >>}]

\* WebCrawler(..., search_words=words)._search_content(text)
SearchCall ==
  /\ probe.op = "search"
  /\ ~ probe.done
  /\ probe' = [probe EXCEPT !.done = TRUE,
                 !.out = search_content(search_words(probe.args.words), probe.args.text)]
  /\ Quiet
  /\ UNCHANGED web

SearchSpec == SearchInit /\ [][SearchCall]_vars

\* ------------------------------------------------------------------------
\* CSV export: save_to_csv and the csv module
\* ------------------------------------------------------------------------
Digits == <<"0","1","2","3","4","5","6","7","8","9">>

\* str(n) for an int n >= 0
RECURSIVE IntToStr(_)
IntToStr(n) ==
  IF n < 10 THEN << Digits[n + 1] >>
  ELSE IntToStr(n \div 10) \o << Digits[(n % 10) + 1] >>

fieldnames ==
  << <<"u","r","l">>, <<"t","i","t","l","e">>,
     <<"d","e","s","c","r","i","p","t","i","o","n">>,
     <<"s","t","a","t","u","s","_","c","o","d","e">>,
     <<"c","o","n","t","e","n","t","_","l","e","n","g","t","h">>,
     <<"l","i","n","k","s","_","f","o","u","n","d">>,
     <<"w","o","r","d","_","m","a","t","c","h","e","s">>,
     <<"t","i","m","e","s","t","a","m","p">> >>

\* ', '.join(f"{word}:{count}" ...) over the items of the word_matches dict
RECURSIVE word_matches_str(_)
word_matches_str(items) ==
  IF items = << >> THEN << >>
  ELSE LET item == Head(items).word \o <<":">> \o IntToStr(Head(items).count)
       IN IF Len(items) = 1 THEN item
          ELSE item \o <<",", " ">> \o word_matches_str(Tail(items))

\* the field with every quote character doubled
RECURSIVE DoubleQuotes(_)
DoubleQuotes(field) ==
  IF field = << >> THEN << >>
  ELSE (IF Head(field) = "\"" THEN <<"\"", "\"">> ELSE << Head(field) >>)
         \o DoubleQuotes(Tail(field))

\* a field written as it is, whatever it contains
WriteField_unquoted(field) == field

\* csv.writer, QUOTE_MINIMAL: a field that holds the delimiter, the quote
\* character or a line break is written in quotes
WriteField(field) ==
  IF \E i \in DOMAIN field : field[i] \in {",", "\"", "\r", "\n"}
  THEN <<"\"">> \o DoubleQuotes(field) \o <<"\"">>
  ELSE field

\* writer.writerow: the fields joined by commas, ended by "\r\n"
RECURSIVE WriteRow(_)
WriteRow(fields) ==
  IF Len(fields) = 1 THEN WriteField(fields[1]) \o <<"\r", "\n">>
  ELSE WriteField(Head(fields)) \o <<",">> \o WriteRow(Tail(fields))

\* the values DictWriter writes for one row of crawled_data, by fieldnames
RowFields(row) ==
  << row.url, row.title, row.description, IntToStr(row.status_code),
     IntToStr(row.content_length), IntToStr(row.links_found),
     word_matches_str(row.word_matches), row.timestamp >>

RECURSIVE WriteRows(_)
WriteRows(data) ==
  IF data = << >> THEN << >>
  ELSE WriteRow(RowFields(Head(data))) \o WriteRows(Tail(data))

\* save_to_csv(filename): whether the file is written, and its content
save_to_csv(data) ==
  IF data = << >> THEN [written |-> FALSE, content |-> << >>]
  ELSE [written |-> TRUE, content |-> WriteRow(fieldnames) \o WriteRows(data)]

stamp == <<"2","0","2","6","-","1","0","-","3","1"," ","0","0",":","0","0",":","0","0">>

\* the page records given to save_to_csv: urls and titles with and without
\* commas, quotes and line breaks, numbers of one to four digits, an empty
\* and a two-term word_matches dict
RowInputs ==
  [url : { <<"u">>, <<"u",",","v">>, <<"w","\"">> },
   title : { << >>, <<"t">>, <<"a",",","b">>, <<"\"","q","\"">>, <<"l","\n","m">>,
             <<"l","\r","m">> },
   description : { << >>, <<"d">> },
   status_code : {200, 300},
   content_length : {0, 7, 1024},
   links_found : {0, 12},
   word_matches : { << >>,
                    << [word |-> <<"a">>, count |-> 2], [word |-> <<"b">>, count |-> 0] >> },
   timestamp : {stamp}]

\* the records of the result lists of two pages
PairRowInputs ==
  { row \in RowInputs :
      /\ row.title \in { <<"a",",","b">>, <<"l","\n","m">> }
      /\ row.description = << >>
      /\ row.content_length = 7
      /\ row.links_found = 0
      /\ row.word_matches = << >> }

\* self.crawled_data when save_to_csv is called: empty, one or two records
CsvInputs ==
  { << >> } \cup { <<row>> : row \in RowInputs }
    \cup { <<pair[1], pair[2]>> :
             pair \in { p \in PairRowInputs \X PairRowInputs : p[1].url # p[2].url } }

CsvInit ==
  /\ Construct
  /\ NoJobs
  /\ Plain
  /\ probe \in [op : {"csv"}, done : {FALSE}, args : CsvInputs,
                out : {[written |-> FALSE, content |-> << >>]}]

\* crawler.save_to_csv(filename) with the given crawled_data
CsvCall ==
  /\ probe.op = "csv"
  /\ ~ probe.done
  /\ probe' = [probe EXCEPT !.done = TRUE, !.out = save_to_csv(probe.args)]
  /\ Quiet
  /\ UNCHANGED web

CsvSpec == CsvInit /\ [][CsvCall]_vars

\* ------------------------------------------------------------------------
\* Web layer: src/app.py, the crawl jobs of POST /api/crawl
\* ------------------------------------------------------------------------
MaxSubmissions == 2     \* at most MaxSubmissions requests are posted to /api/crawl
MaxClock == 1           \* int(time.time()) runs over 0 .. MaxClock

\* str.strip() for blanks
RECURSIVE Strip(_)
Strip(s) ==
  IF s = << >> THEN s
  ELSE IF Head(s) = " " THEN Strip(Tail(s))
  ELSE IF s[Len(s)] = " " THEN Strip(SubSeq(s, 1, Len(s) - 1))
  ELSE s

\* f"crawl_{int(time.time())}"
JobId(t) == <<"c","r","a","w","l","_">> \o IntToStr(t)

\* the job ids a client can ask for
JobIds == { JobId(t) : t \in 0..MaxClock }

\* the JSON bodies posted: the url missing, blank or given, the delay
\* positive or negative; the other parameters are left at their defaults
CrawlData == [url : {<< >>, <<" ">>, <<"u">>, <<"u"," ">>}, delay : {1, -1}]

\* a commit of the database session goes through or raises
DbOutcomes == {"ok", "fails"}

\* numbers of page records crawl() returns
PageCounts == {0, 1}

\* crawler.crawl() and the processing of its results: the list is returned,
\* or time.sleep(delay) raises ValueError for a negative delay
CrawlOutcomes(job_delay) ==
  [raises : {FALSE}, pages : PageCounts]
    \cup (IF job_delay < 0 THEN {[raises |-> TRUE, pages |-> 0]} ELSE {})

\* CrawlJob.job_id is unique: whether a row with this job_id can be inserted
UniqueJobId_unchecked(job_id) == TRUE

UniqueJobId(job_id) ==
  \A k \in DOMAIN crawl_jobs : crawl_jobs[k].job_id # job_id

\* Thread.start() starts the thread or raises RuntimeError
ThreadOutcomes == {"started", "raises"}

\* positions of the thread of a submission in run_crawler
ThreadPositions ==
  {"db_running", "mem_running", "mem_message", "crawl", "db_store", "mem_results",
   "mem_completed", "except_db", "mem_error", "finished", "died"}

\* the crawler of a web job is not the instance of the crawl model
NoCrawl == Quiet /\ UNCHANGED probe

\* the submissions with the thread of submission r moved to position pos
At(r, pos) == [submissions EXCEPT ![r].thread = pos]

\* start_crawl, up to the database record: job id, parameters, validation
StartCrawl_Receive ==
  /\ Len(submissions) < MaxSubmissions
  /\ \E data \in CrawlData :
       LET url == Strip(data.url) IN
         submissions' = Append(submissions,
           [pc |-> IF url = << >> THEN "responded" ELSE "commit",
            thread |-> "none",
            job_id |-> JobId(clock),
            url |-> url,
            delay |-> data.delay,
            db_job_id |-> 0,
            pages |-> 0,
            error |-> "",
            response |-> IF url = << >> THEN 400 ELSE 0])
  /\ UNCHANGED <<crawl_status, crawl_results, crawl_jobs, clock, writers, client>>
  /\ NoCrawl

\* start_crawl: db.session.add(crawl_job); db.session.commit()
StartCrawl_Commit(r) ==
  /\ submissions[r].pc = "commit"
  /\ \E db \in DbOutcomes :
       IF db = "ok" /\ UniqueJobId(submissions[r].job_id)
       THEN /\ crawl_jobs' = Append(crawl_jobs,
                 [job_id |-> submissions[r].job_id, status |-> "starting"])
            /\ submissions' = [submissions EXCEPT ![r].pc = "init_status",
                                 ![r].db_job_id = Len(crawl_jobs) + 1]
       ELSE /\ crawl_jobs' = crawl_jobs
            /\ submissions' = [submissions EXCEPT ![r].pc = "responded",
                                 ![r].response = 500]
  /\ UNCHANGED <<crawl_status, crawl_results, clock, writers, client>>
  /\ NoCrawl

\* start_crawl: crawl_status[job_id] = {'status': 'starting', ...}
StartCrawl_InitStatus(r) ==
  /\ submissions[r].pc = "init_status"
  /\ crawl_status' = (submissions[r].job_id :>
                        [status |-> "starting", progress |-> 0, total_pages |-> 0,
                         current_url |-> << >>,
                         message |-> <<"Initializing crawler...">>])
                     @@ crawl_status
  /\ writers' = writers \cup {<<submissions[r].job_id, r>>}
  /\ submissions' = [submissions EXCEPT ![r].pc = "start_thread"]
  /\ UNCHANGED <<crawl_results, crawl_jobs, clock, client>>
  /\ NoCrawl

\* start_crawl: the thread is created and started; when start() raises, the
\* except branch answers 500 and the status entry stays
StartCrawl_StartThread(r) ==
  /\ submissions[r].pc = "start_thread"
  /\ \E outcome \in ThreadOutcomes :
       IF outcome = "started"
       THEN submissions' = [submissions EXCEPT ![r].pc = "respond",
                              ![r].thread = "db_running"]
       ELSE submissions' = [submissions EXCEPT ![r].pc = "responded",
                              ![r].response = 500]
  /\ UNCHANGED <<crawl_status, crawl_results, crawl_jobs, clock, writers, client>>
  /\ NoCrawl

\* start_crawl: return jsonify({'job_id': job_id, 'status': 'started'})
StartCrawl_Respond(r) ==
  /\ submissions[r].pc = "respond"
  /\ submissions' = [submissions EXCEPT ![r].pc = "responded", ![r].response = 200]
  /\ UNCHANGED <<crawl_status, crawl_results, crawl_jobs, clock, writers, client>>
  /\ NoCrawl

\* the row of the job with its status column set
RowStatus(r, status) ==
  [crawl_jobs EXCEPT ![submissions[r].db_job_id].status = status]

\* the submissions with the thread of submission r in the except branch
\* for an exception with the given text
Raised(r, text) ==
  [submissions EXCEPT ![r].thread = "except_db", ![r].error = text]

\* run_crawler: the database status 'running'
RunCrawler_DbRunning(r) ==
  /\ submissions[r].thread = "db_running"
  /\ \E db \in DbOutcomes :
       IF db = "ok"
       THEN crawl_jobs' = RowStatus(r, "running") /\ submissions' = At(r, "mem_running")
       ELSE crawl_jobs' = crawl_jobs /\ submissions' = Raised(r, "database error")
  /\ UNCHANGED <<crawl_status, crawl_results, clock, writers, client>>
  /\ NoCrawl

\* run_crawler: crawl_status[job_id]['status'] = 'running'
RunCrawler_MemRunning(r) ==
  /\ submissions[r].thread = "mem_running"
  /\ crawl_status' = [crawl_status EXCEPT ![submissions[r].job_id].status = "running"]
  /\ writers' = writers \cup {<<submissions[r].job_id, r>>}
  /\ submissions' = At(r, "mem_message")
  /\ UNCHANGED <<crawl_results, crawl_jobs, clock, client>>
  /\ NoCrawl

\* run_crawler: crawl_status[job_id]['message'] = 'Starting crawler...'
RunCrawler_MemMessage(r) ==
  /\ submissions[r].thread = "mem_message"
  /\ crawl_status' = [crawl_status EXCEPT
                        ![submissions[r].job_id].message = <<"Starting crawler...">>]
  /\ writers' = writers \cup {<<submissions[r].job_id, r>>}
  /\ submissions' = At(r, "crawl")
  /\ UNCHANGED <<crawl_results, crawl_jobs, clock, client>>
  /\ NoCrawl

\* run_crawler: the crawler is constructed and run, its results processed
RunCrawler_Crawl(r) ==
  /\ submissions[r].thread = "crawl"
  /\ \E outcome \in CrawlOutcomes(submissions[r].delay) :
       submissions' =
         IF outcome.raises
         THEN Raised(r, "sleep length must be non-negative")
         ELSE [submissions EXCEPT ![r].thread = "db_store", ![r].pages = outcome.pages]
  /\ UNCHANGED <<crawl_status, crawl_results, crawl_jobs, clock, writers, client>>
  /\ NoCrawl

\* run_crawler: the pages and the status 'completed' go to the database
RunCrawler_DbStore(r) ==
  /\ submissions[r].thread = "db_store"
  /\ \E db \in DbOutcomes :
       IF db = "ok"
       THEN crawl_jobs' = RowStatus(r, "completed") /\ submissions' = At(r, "mem_results")
       ELSE crawl_jobs' = crawl_jobs /\ submissions' = Raised(r, "database error")
  /\ UNCHANGED <<crawl_status, crawl_results, clock, writers, client>>
  /\ NoCrawl

\* run_crawler without the assignment to crawl_results[job_id]
RunCrawler_MemResults_skipped(r) ==
  /\ submissions[r].thread = "mem_results"
  /\ submissions' = At(r, "mem_completed")
  /\ UNCHANGED <<crawl_status, crawl_results, crawl_jobs, clock, writers, client>>
  /\ NoCrawl

\* run_crawler: crawl_results[job_id] = {'results': ..., 'summary': ...};
\* of the entry the number of page records and the search type are kept
RunCrawler_MemResults(r) ==
  /\ submissions[r].thread = "mem_results"
  /\ crawl_results' = (submissions[r].job_id :>
                         [summary |-> [total_pages |-> submissions[r].pages,
                                       search_type |-> "both",
                                       search_words |-> << >>]])
                      @@ crawl_results
  /\ writers' = writers \cup {<<submissions[r].job_id, r>>}
  /\ submissions' = At(r, "mem_completed")
  /\ UNCHANGED <<crawl_status, crawl_jobs, clock, client>>
  /\ NoCrawl

\* run_crawler: crawl_status[job_id] = {'status': 'completed', ...}
RunCrawler_MemCompleted(r) ==
  /\ submissions[r].thread = "mem_completed"
  /\ crawl_status' = (submissions[r].job_id :>
                        [status |-> "completed", progress |-> 100,
                         total_pages |-> submissions[r].pages,
                         message |-> <<"Crawling completed! Found ",
                                       IntToStr(submissions[r].pages), " pages.">>])
                     @@ crawl_status
  /\ writers' = writers \cup {<<submissions[r].job_id, r>>}
  /\ submissions' = At(r, "finished")
  /\ UNCHANGED <<crawl_results, crawl_jobs, clock, client>>
  /\ NoCrawl

\* run_crawler, except branch: the database status 'error'; an exception
\* raised here ends the thread
RunCrawler_ExceptDb(r) ==
  /\ submissions[r].thread = "except_db"
  /\ \E db \in DbOutcomes :
       IF db = "ok"
       THEN crawl_jobs' = RowStatus(r, "error") /\ submissions' = At(r, "mem_error")
       ELSE crawl_jobs' = crawl_jobs /\ submissions' = At(r, "died")
  /\ UNCHANGED <<crawl_status, crawl_results, clock, writers, client>>
  /\ NoCrawl

\* run_crawler, except branch: crawl_status[job_id] = {'status': 'error', ...}
RunCrawler_MemError(r) ==
  /\ submissions[r].thread = "mem_error"
  /\ crawl_status' = (submissions[r].job_id :>
                        [status |-> "error", progress |-> 0,
                         message |-> <<"Error: ", submissions[r].error>>])
                     @@ crawl_status
  /\ writers' = writers \cup {<<submissions[r].job_id, r>>}
  /\ submissions' = At(r, "finished")
  /\ UNCHANGED <<crawl_results, crawl_jobs, clock, client>>
  /\ NoCrawl

\* GET /api/crawl/status/<job_id>
get_crawl_status(job_id) ==
  IF job_id \notin DOMAIN crawl_status
  THEN [code |-> 404, body |-> [error |-> "Job not found"]]
  ELSE [code |-> 200, body |-> crawl_status[job_id]]

\* GET /api/crawl/results/<job_id>
get_crawl_results(job_id) ==
  IF job_id \notin DOMAIN crawl_results
  THEN [code |-> 404, body |-> [error |-> "Results not found"]]
  ELSE [code |-> 200, body |-> crawl_results[job_id]]

\* a client polls the status endpoint and notes the jobs reported completed
ClientPoll(job_id) ==
  /\ LET answer == get_crawl_status(job_id) IN
       /\ answer.code = 200
       /\ answer.body.status = "completed"
       /\ client' = [client EXCEPT !.completed = @ \cup {job_id}]
  /\ UNCHANGED <<crawl_status, crawl_results, crawl_jobs, clock, submissions, writers>>
  /\ NoCrawl

\* the client requests the results of a job it saw completed
ClientFetch(job_id) ==
  /\ job_id \in client.completed
  /\ client' = [client EXCEPT !.answers = @ \cup
                  {[job_id |-> job_id, code |-> get_crawl_results(job_id).code]}]
  /\ UNCHANGED <<crawl_status, crawl_results, crawl_jobs, clock, submissions, writers>>
  /\ NoCrawl

\* a second passes on the server's clock
Tick ==
  /\ clock < MaxClock
  /\ clock' = clock + 1
  /\ UNCHANGED <<crawl_status, crawl_results, crawl_jobs, submissions, writers, client>>
  /\ NoCrawl

WebInit == Construct /\ Plain /\ probe = NoProbe /\ NoJobs

WebNext ==
  \/ StartCrawl_Receive
  \/ Tick
  \/ \E r \in DOMAIN submissions :
       \/ StartCrawl_Commit(r)
       \/ StartCrawl_InitStatus(r)
       \/ StartCrawl_StartThread(r)
       \/ StartCrawl_Respond(r)
       \/ RunCrawler_DbRunning(r)
       \/ RunCrawler_MemRunning(r)
       \/ RunCrawler_MemMessage(r)
       \/ RunCrawler_Crawl(r)
       \/ RunCrawler_DbStore(r)
       \/ RunCrawler_MemResults(r)
       \/ RunCrawler_MemCompleted(r)
       \/ RunCrawler_ExceptDb(r)
       \/ RunCrawler_MemError(r)
  \/ \E job_id \in JobIds : ClientPoll(job_id) \/ ClientFetch(job_id)

WebSpec == WebInit /\ [][WebNext]_vars

TypeOK ==
  /\ pc \in {"idle", "loop", "fetch", "rate", "done", "raised", "blocked"}
  /\ delay \in Delays
  /\ pages_crawled \in Nat
  /\ calls \in 0..MaxCrawls

\* ------------------------------------------------------------------------
\* Properties
\* ------------------------------------------------------------------------
ResultUrls == { crawled_data[k].url : k \in DOMAIN crawled_data }
FetchedUrls == { fetch_log[i].url : i \in DOMAIN fetch_log }

\* C1 (as stated): for any max_pages the result list never holds more than
\* max_pages page records
C1_LenAtMostMaxPages_AnyBudget == Len(crawled_data) <= max_pages

\* C1 (amended): for any max_pages >= 0 the result list never holds more
\* than max_pages page records, in every reachable state and at return
C1_LenAtMostMaxPages == max_pages >= 0 => Len(crawled_data) <= max_pages

\* C1 witness: the crawl returned with the budget used up while entries were
\* still waiting in the frontier
C1_Witness ==
  /\ pc = "done"
  /\ max_pages >= 2
  /\ Len(crawled_data) = max_pages
  /\ crawl_queue # << >>

\* C2: every _fetch_page call, and so every page record, comes from a
\* frontier entry whose depth is at most max_depth
C2_FetchDepthAtMostMaxDepth ==
  /\ \A i \in DOMAIN fetch_log : fetch_log[i].depth <= max_depth
  /\ \A k \in DOMAIN crawled_data :
       \E i \in DOMAIN fetch_log :
         /\ fetch_log[i].url = crawled_data[k].url
         /\ fetch_log[i].ok
         /\ fetch_log[i].depth <= max_depth
  /\ pc = "fetch" => current.depth <= max_depth

\* C2 witness: a page was fetched at depth max_depth >= 1 and has links
C2_Witness ==
  /\ max_depth >= 1
  /\ \E i \in DOMAIN fetch_log :
       /\ fetch_log[i].ok
       /\ fetch_log[i].depth = max_depth
       /\ \E k \in DOMAIN crawled_data :
            /\ crawled_data[k].url = fetch_log[i].url
            /\ crawled_data[k].links_found >= 1

\* C3: the urls of the page records of the result list are pairwise distinct
C3_ResultUrlsDistinct ==
  \A j, k \in DOMAIN crawled_data :
    j # k => crawled_data[j].url # crawled_data[k].url

\* C3 witness: a url sat in the frontier twice, was dequeued twice, and the
\* result list holds its page among others
C3_Witness ==
  /\ Len(crawled_data) >= 2
  /\ \E i, j \in DOMAIN deq_log :
       /\ i < j
       /\ deq_log[i].url = deq_log[j].url
       /\ deq_log[i].url \in ResultUrls

\* C4: the Page Fetcher is called at most once for each url, and an entry
\* whose url was processed before is never handed to it
C4_FetchedAtMostOnce ==
  /\ \A i, j \in DOMAIN fetch_log : i # j => fetch_log[i].url # fetch_log[j].url
  /\ pc = "fetch" => current.url \notin FetchedUrls

\* C4 witness: a url whose fetch failed was dequeued a second time, at a
\* greater depth
C4_Witness ==
  \E f \in DOMAIN fetch_log :
    /\ ~ fetch_log[f].ok
    /\ \E j \in DOMAIN deq_log :
         /\ deq_log[j].url = fetch_log[f].url
         /\ deq_log[j].depth > fetch_log[f].depth

\* C5: the depths of the entries dequeued during a crawl are non-decreasing,
\* and no entry waiting in the frontier is shallower than a dequeued one
C5_BreadthFirstOrder ==
  /\ \A i, j \in DOMAIN deq_log : i < j => deq_log[i].depth <= deq_log[j].depth
  /\ \A i \in DOMAIN deq_log, q \in DOMAIN crawl_queue :
       deq_log[i].depth <= crawl_queue[q].depth

\* C5 witness: entries of depth 0, 1 and 2 were dequeued, two of depth 1
C5_Witness ==
  /\ \E i, j \in DOMAIN deq_log : i # j /\ deq_log[i].depth = 1 /\ deq_log[j].depth = 1
  /\ \E i \in DOMAIN deq_log : deq_log[i].depth = 2

\* C6: under the sequential execution of crawl(), a running crawl reaches its
\* return, whatever the fetch outcomes, and then the frontier is empty or the
\* page counter has reached max_pages
C6_CrawlTerminates ==
  (pc = "loop") ~> (pc = "done" /\ (crawl_queue = << >> \/ pages_crawled >= max_pages))

\* C7: with max_depth = 0 nothing but the seed is ever in the frontier,
\* fetched or recorded, and the result list holds at most one page
C7_SeedOnlyAtDepthZero ==
  max_depth = 0 =>
    /\ \A q \in DOMAIN crawl_queue : crawl_queue[q] = [url |-> start_url, depth |-> 0]
    /\ FetchedUrls \subseteq {start_url}
    /\ ResultUrls \subseteq {start_url}
    /\ Len(crawled_data) <= 1

\* C7 witness: with max_depth = 0 the seed page was fetched, links were found
\* on it, and the crawl returned
C7_Witness ==
  /\ max_depth = 0
  /\ pc = "done"
  /\ Len(crawled_data) = 1
  /\ crawled_data[1].links_found >= 2

\* the Scope Filter as the specification states it
InScope(url) ==
  /\ url.scheme = http \/ url.scheme = https
  /\ \E d \in allowed_domains : d = url.netloc
  /\ LET lowered == Lower(url.path)
     IN \A ext \in skip_extensions : ~ EndsWith(lowered, ext)

\* C8 (as stated): the url of every page record satisfies the Scope Filter
C8_AllRecordsInScope ==
  \A k \in DOMAIN crawled_data : InScope(crawled_data[k].url)

\* C8 (amended): the url of every page record other than the seed url
\* satisfies the Scope Filter; the seed is fetched without being filtered
C8_NonSeedRecordsInScope ==
  \A k \in DOMAIN crawled_data :
    crawled_data[k].url # start_url => InScope(crawled_data[k].url)

\* C8 witness: the result list holds the page of a seed that is out of scope
\* and a page found through a link
C8_Witness ==
  /\ ~ InScope(start_url)
  /\ start_url \in ResultUrls
  /\ \E k \in DOMAIN crawled_data : crawled_data[k].url # start_url

\* the normalized targets of the anchors of a page: of every href that is
\* not empty and can be parsed, wherever it stands in the document
AnchorTargets(hrefs, base_url, check) ==
  { normalize_url(urljoin(base_url, hrefs[i])) :
      i \in { j \in 1..Len(hrefs) : hrefs[j] # EmptyHref /\ ~ UrlRaises(hrefs[j], check) } }

\* the in-scope links of a page
InScopeLinks(page, check) ==
  { u \in AnchorTargets(Web(page), page, check) : InScope(u) }

\* the frontier after the given links were pushed onto its tail, in some order
PushedAtTail(links, depth) ==
  \E order \in Orderings(links) :
    crawl_queue' = crawl_queue \o
      [i \in 1..Len(order) |-> [url |-> order[i], depth |-> depth]]

\* a step of crawl() that records a page fetched below max_depth
RecordsPageBelowMaxDepth ==
  /\ Len(crawled_data') = Len(crawled_data) + 1
  /\ current.depth < max_depth

\* C9: a page fetched at depth d < max_depth pushes exactly its in-scope
\* links that are not yet visited onto the frontier tail at depth d + 1; a
\* link that fails the Scope Filter is never pushed, and no fetch is issued
\* for it: every entry pushed for a link, and every fetch of such an entry,
\* is in scope (the seed entry at depth 0 is not a link and is not filtered)
C9_PushesAllInScopeLinks ==
  /\ [][RecordsPageBelowMaxDepth =>
          \E check \in UrlsplitChecks :
            PushedAtTail({ u \in InScopeLinks(current.url, check) : u \notin visited_urls },
                         current.depth + 1)]_vars
  /\ [](/\ \A q \in DOMAIN crawl_queue :
             crawl_queue[q].depth >= 1 => InScope(crawl_queue[q].url)
        /\ \A i \in DOMAIN fetch_log :
             fetch_log[i].depth >= 1 => InScope(fetch_log[i].url))

\* C10: a url the Robots Gate denies gets no GET and no page record, and the
\* page of every record was fetched on a verdict of the gate that allowed it
C10_RobotsGateBeforeRequest ==
  /\ \A i \in DOMAIN fetch_log :
       ~ fetch_log[i].allowed => ~ fetch_log[i].get /\ ~ fetch_log[i].ok
  /\ \A k \in DOMAIN crawled_data :
       \E i \in DOMAIN fetch_log :
         /\ fetch_log[i].url = crawled_data[k].url
         /\ fetch_log[i].ok
         /\ fetch_log[i].allowed
  /\ \A k \in DOMAIN crawled_data :
       \A i \in DOMAIN fetch_log :
         fetch_log[i].url = crawled_data[k].url => fetch_log[i].allowed

\* C10 witness: with robots respect enabled, a robots.txt that was read
\* denied one url and allowed another, whose page was recorded
C10_Witness ==
  /\ respect_robots
  /\ \E i, j \in DOMAIN fetch_log :
       /\ ~ fetch_log[i].allowed
       /\ fetch_log[j].ok
       /\ fetch_log[i].url.netloc = fetch_log[j].url.netloc
       /\ fetch_log[i].url.netloc \in DOMAIN robots_cache
       /\ robots_cache[fetch_log[i].url.netloc].kind = "rules"

\* C11 (as stated): of two crawls that differ only in the robots flag, the
\* one with robots respect disabled issues at least as many page GETs
C11_DisabledNeverFewerGets ==
  (first_run.done /\ pc = "done") => Gets(fetch_log) >= first_run.gets

\* no GET of either crawl failed
NoGetFailed ==
  /\ \A o \in first_run.outcomes : o.ok
  /\ \A i \in DOMAIN fetch_log : fetch_log[i].get => fetch_log[i].ok

\* C11 (amended): the crawl with robots respect disabled issues at least as
\* many page GETs, provided it returns with an empty frontier (the page
\* budget does not cut it short) or no page GET of either crawl fails
C11_DisabledNeverFewerGetsUncut ==
  (first_run.done /\ pc = "done" /\ (crawl_queue = << >> \/ NoGetFailed)) =>
    Gets(fetch_log) >= first_run.gets

\* C11 witness: both crawls returned, the one with robots respect enabled was
\* denied a url and issued fewer GETs than the one without
C11_Witness ==
  /\ first_run.done
  /\ pc = "done"
  /\ crawl_queue = << >>
  /\ first_run.gets >= 2
  /\ Gets(fetch_log) > first_run.gets
  /\ \E i \in DOMAIN fetch_log : fetch_log[i].get /\ ~ fetch_log[i].ok

\* C12 (as stated): within one crawl the robots.txt of a host is requested
\* at most once, also when the request fails
C12_RobotsRequestedOncePerHost ==
  \A i, j \in DOMAIN robots_log :
    (robots_log[i].host = robots_log[j].host /\ robots_log[i].call = robots_log[j].call)
      => i = j

\* robots.txt of the host was requested and never delivered
Unretrievable(host) ==
  /\ \E i \in DOMAIN robots_log : robots_log[i].host = host
  /\ \A i \in DOMAIN robots_log : robots_log[i].host = host => robots_log[i].kind # "200"

\* C13 (as stated): a host whose robots.txt cannot be retrieved has every
\* path allowed by the gate
C13_GateFailsOpen ==
  \A i \in DOMAIN fetch_log :
    Unretrievable(fetch_log[i].url.netloc) => fetch_log[i].allowed

\* C14: when _fetch_page returns nothing for the dequeued url (robots denial,
\* or timeout, connection failure, error status or non-HTML content after the
\* GET), the url is in the visited set, the result list, the counter and the
\* queue are unchanged, and the loop continues: control reaches the rate
\* limit, and the rate limit step then returns to the loop condition
C14_NothingReturnedLeavesNoTrace ==
  /\ [][ (pc = "fetch" /\ Len(fetch_log') > Len(fetch_log)
           /\ ~ fetch_log'[Len(fetch_log')].ok)
        => /\ current.url \in visited_urls'
           /\ crawled_data' = crawled_data
           /\ pages_crawled' = pages_crawled
           /\ crawl_queue' = crawl_queue
           /\ pc' = "rate" ]_vars
  /\ [][ (pc = "rate" /\ ~ fetch_log[Len(fetch_log)].ok)
        => /\ pc' = "loop"
           /\ visited_urls' = visited_urls
           /\ crawled_data' = crawled_data
           /\ pages_crawled' = pages_crawled
           /\ crawl_queue' = crawl_queue ]_vars

\* C14 witness: a url was denied by robots, another failed after its GET,
\* both are visited and unrecorded, and a later url was fetched
C14_Witness ==
  \E i, j, k \in DOMAIN fetch_log :
    /\ ~ fetch_log[i].allowed
    /\ fetch_log[j].get /\ ~ fetch_log[j].ok
    /\ i < k /\ j < k /\ fetch_log[k].ok
    /\ {fetch_log[i].url, fetch_log[j].url} \subseteq visited_urls \ ResultUrls

\* C15 (as stated): every record of the result list has a 2xx status code
C15_RecordsHave2xxStatus ==
  \A k \in DOMAIN crawled_data :
    200 <= crawled_data[k].status_code /\ crawled_data[k].status_code <= 299

\* C16: the visited set contains the url of every record of the result list
C16_VisitedContainsRecords == ResultUrls \subseteq visited_urls

\* C16 witness: crawl() was called again on the instance and the records of
\* the first call are still covered, next to visited urls without a record
C16_Witness ==
  /\ calls = 2
  /\ Len(crawled_data) >= 2
  /\ ResultUrls # visited_urls

\* C17: _fetch_page calls are made one after the other, and between any two
\* of them at least one sleep of the delay takes place
C17_SleepBetweenFetches ==
  \A i, j \in DOMAIN fetch_log :
    i < j => fetch_log[i].sleeps < fetch_log[j].sleeps

\* C17 witness: three pages were requested one after the other, the first
\* recorded, a later one failed
C17_Witness ==
  /\ Len(fetch_log) >= 3
  /\ fetch_log[1].ok
  /\ \E j \in 2..Len(fetch_log) : fetch_log[j].get /\ ~ fetch_log[j].ok
  /\ sleeps >= 2

\* C18 (as stated): no sleep takes place after the final dequeue of a crawl
C18_NoSleepAfterFinalDequeue ==
  (pc = "done" /\ deq_log # << >>) => sleeps = deq_log[Len(deq_log)].sleeps

\* C19 (as stated): when crawl() returns, every url dequeued during the crawl
\* is in the visited set
C19_VisitedContainsDequeued ==
  pc = "done" => \A i \in DOMAIN deq_log : deq_log[i].url \in visited_urls

\* C19 (amended): when crawl() returns, every url dequeued during the crawl
\* at a depth of at most max_depth is in the visited set
C19_VisitedContainsDequeuedInDepth ==
  pc = "done" =>
    \A i \in DOMAIN deq_log :
      deq_log[i].depth <= max_depth => deq_log[i].url \in visited_urls

\* C19 witness: crawl() returned after dequeuing a url twice and a url whose
\* fetch failed
C19_Witness ==
  /\ pc = "done"
  /\ \E i, j \in DOMAIN deq_log : i < j /\ deq_log[i].url = deq_log[j].url
  /\ \E i \in DOMAIN deq_log : \E k \in DOMAIN fetch_log :
       fetch_log[k].url = deq_log[i].url /\ ~ fetch_log[k].ok

\* every entry pushed in this crawl() call, in the order of the pushes: the
\* entries dequeued so far followed by the entries still in the queue
Pushes ==
  [i \in 1..(Len(deq_log) + Len(crawl_queue)) |->
     IF i <= Len(deq_log)
     THEN [url |-> deq_log[i].url, depth |-> deq_log[i].depth]
     ELSE crawl_queue[i - Len(deq_log)]]

\* the children of the k-th processed page: the links of a page recorded below
\* max_depth that were not visited when it was processed
PushedBy(k, check) ==
  IF fetch_log[k].ok /\ fetch_log[k].depth < max_depth
  THEN extract_links(Web(fetch_log[k].url), fetch_log[k].url, check)
         \ { fetch_log[i].url : i \in 1..k }
  ELSE {}

\* the number of entries pushed before the k-th page was processed
RECURSIVE PushedBefore(_, _)
PushedBefore(k, check) ==
  IF k = 1 THEN 1
  ELSE PushedBefore(k - 1, check) + Cardinality(PushedBy(k - 1, check))

\* the links of a page in the order of their first anchor in the document
RECURSIVE LinksInOrder(_, _, _, _, _)
LinksInOrder(hrefs, base_url, i, order, check) ==
  IF i > Len(hrefs) THEN order
  ELSE IF hrefs[i] = EmptyHref THEN LinksInOrder(hrefs, base_url, i + 1, order, check)
  ELSE IF UrlRaises(hrefs[i], check) THEN order
  ELSE LET normalized_url == normalize_url(urljoin(base_url, hrefs[i]))
       IN LinksInOrder(hrefs, base_url, i + 1,
            IF is_valid_url(normalized_url)
                 /\ \A j \in DOMAIN order : order[j] # normalized_url
            THEN Append(order, normalized_url) ELSE order,
            check)

\* the children of the k-th processed page in document order
ChildrenInOrder(k, check) ==
  LET IsChild(u) == u \in PushedBy(k, check)
  IN SelectSeq(LinksInOrder(Web(fetch_log[k].url), fetch_log[k].url, 1, << >>, check),
               IsChild)

\* C20 (as stated): the children of one page are pushed, and so dequeued, in
\* the order in which the links appear on that page, page after page in the
\* order in which the pages were processed
C20_DequeuedInDocumentOrder ==
  calls = 1 =>
    \E check \in UrlsplitChecks :
      \A k \in DOMAIN fetch_log :
        \A m \in 1..Len(ChildrenInOrder(k, check)) :
          /\ PushedBefore(k, check) + m <= Len(Pushes)
          /\ Pushes[PushedBefore(k, check) + m].url = ChildrenInOrder(k, check)[m]

\* from the k-th processed page on, with the given number of entries pushed
\* before it: the children of each page are one block of the pushes, one
\* depth below the page, and nothing else was pushed
RECURSIVE BlocksInParentOrder(_, _, _)
BlocksInParentOrder(k, before, check) ==
  IF k > Len(fetch_log) THEN Len(Pushes) = before
  ELSE LET children == PushedBy(k, check)
           size == Cardinality(children)
       IN /\ before + size <= Len(Pushes)
          /\ { Pushes[before + m] : m \in 1..size }
               = { [url |-> u, depth |-> fetch_log[k].depth + 1] : u \in children }
          /\ BlocksInParentOrder(k + 1, before + size, check)

\* C20 (amended): entries are dequeued in the order of their push; the
\* children of one page form one block of the pushes, one depth below the
\* page, after the blocks of all pages processed before it
C20_DequeuedInParentOrder ==
  calls = 1 => \E check \in UrlsplitChecks : BlocksInParentOrder(1, 1, check)

\* C20 witness: two pages pushed children, a child of the later page was
\* dequeued, and the children of a page were not pushed in document order
C20_Witness ==
  /\ calls = 1
  /\ \E check \in UrlsplitChecks : \E k1, k2 \in DOMAIN fetch_log :
       /\ k1 < k2
       /\ Cardinality(PushedBy(k1, check)) >= 2
       /\ PushedBy(k2, check) # {}
       /\ Len(deq_log) > PushedBefore(k2, check)
  /\ ~ C20_DequeuedInDocumentOrder

\* the urls at each discovery distance from the seed, distance 0 first: a
\* url is one link further than the nearest successfully fetched page that
\* has an in-scope link to it
RECURSIVE DiscoveryLevels(_, _, _, _)
DiscoveryLevels(level, reached, levels, check) ==
  IF level = {} THEN levels
  ELSE LET found == UNION { InScopeLinks(v, check) : v \in level \cap ResultUrls }
           next == found \ reached
       IN DiscoveryLevels(next, reached \cup next, Append(levels, level), check)

\* C21: a url is processed at its shortest discovery distance from the seed,
\* the length of the shortest chain of in-scope links from the seed through
\* successfully fetched pages, and no entry of the same url with a smaller
\* depth is ever pushed
C21_DepthIsShortestDistance ==
  \E check \in UrlsplitChecks :
    LET levels == DiscoveryLevels({start_url}, {start_url}, << >>, check)
    IN \A i \in DOMAIN fetch_log :
         /\ fetch_log[i].depth + 1 <= Len(levels)
         /\ fetch_log[i].url \in levels[fetch_log[i].depth + 1]
         /\ \A q \in DOMAIN Pushes :
              Pushes[q].url = fetch_log[i].url => Pushes[q].depth >= fetch_log[i].depth

\* the two strings are the same but for the letter case of the host
DifferInHostCase(a, b) ==
  /\ Lower(a.netloc) = Lower(b.netloc)
  /\ [a EXCEPT !.netloc = << >>] = [b EXCEPT !.netloc = << >>]

\* the two strings are the same but for the fragment
DifferInFragment(a, b) ==
  [a EXCEPT !.fragment = << >>] = [b EXCEPT !.fragment = << >>]

\* C22 (as stated): two urls that differ only in the letter case of the host,
\* or only in the fragment, normalize to the same url, and normalization
\* leaves path, params and query as they are
C22_NormalizeIdentifies ==
  (probe.op = "normalize" /\ probe.done) =>
    /\ (DifferInHostCase(probe.args[1], probe.args[2])
          \/ DifferInFragment(probe.args[1], probe.args[2]))
         => probe.out[1] = probe.out[2]
    /\ probe.out[1].path = probe.args[1].path
    /\ probe.out[1].params = probe.args[1].params
    /\ probe.out[1].query = probe.args[1].query

\* C23: the Scope Filter allows a url exactly when its scheme is http or
\* https, its host is a member of the allowed domains and its path in lower
\* case ends with none of the excluded extensions
C23_FilterAllowsExactlyInScope ==
  (probe.op = "scope" /\ probe.done) => (probe.out <=> InScope(probe.args))

\* C23 witness: the filter denied a subdomain of the only allowed domain,
\* with an http(s) scheme and a path without excluded extension
C23_Witness ==
  /\ probe.op = "scope"
  /\ probe.done
  /\ ~ probe.out
  /\ probe.args.netloc = s_a_co
  /\ allowed_domains = {a_co}
  /\ probe.args.scheme = https
  /\ probe.args.path = p_root

\* the positions at which word occurs in text
Occurrences(text, word) ==
  { i \in 1..(Len(text) + 1) :
      i + Len(word) - 1 <= Len(text) /\ SubSeq(text, i, i + Len(word) - 1) = word }

\* the largest number of occurrences of word in text of which no two overlap
NonOverlapping(text, word) ==
  LET disjoint == { P \in SUBSET Occurrences(text, word) :
                      \A i, j \in P : i < j => j - i >= Len(word) }
  IN CHOOSE n \in 0..(Len(text) + 1) :
       /\ \E P \in disjoint : Cardinality(P) = n
       /\ \A P \in disjoint : Cardinality(P) <= n

\* C24: the Content Searcher maps every configured term, in lower case, to
\* the number of non-overlapping occurrences of it in the text in lower case,
\* and returns the empty mapping when no term is configured
C24_CountsNonOverlappingOccurrences ==
  (probe.op = "search" /\ probe.done) =>
    LET words == probe.args.words.words
        text == Lower(probe.args.text)
    IN /\ DOMAIN probe.out = { Lower(words[i]) : i \in DOMAIN words }
       /\ \A i \in DOMAIN words :
            probe.out[Lower(words[i])] = NonOverlapping(text, Lower(words[i]))
       /\ (~ probe.args.words.given \/ words = << >>) => DOMAIN probe.out = {}

\* C24 witness: "Cat" was counted 3 times in "Cat cat CATs"
C24_Witness ==
  /\ probe.op = "search"
  /\ probe.done
  /\ probe.args.text = text_cats
  /\ probe.args.words.words = << <<"C","a","t">> >>
  /\ probe.out[word_cat] = 3

\* C25: with robots respect disabled the gate allows every url, no robots.txt
\* is requested and the robots cache stays empty
C25_RobotsDisabledLeavesNoTrace ==
  ~ respect_robots =>
    /\ \A i \in DOMAIN fetch_log : fetch_log[i].allowed
    /\ robots_log = << >>
    /\ robots_cache = << >>

\* C25 witness: a crawl with robots respect disabled returned after a second
\* crawl() call with three pages requested, /p among them
C25_Witness ==
  /\ ~ respect_robots
  /\ pc = "done"
  /\ calls = 2
  /\ Len(fetch_log) >= 3
  /\ \E i \in DOMAIN fetch_log : fetch_log[i].url = Page(a_co, p_p) /\ fetch_log[i].get

\* one step of csv.reader: the state of the reader, the field and the row
\* being read and the rows read so far, after the character c
ReaderStep(st, c) ==
  LET eol == c \in {"\r", "\n"}
      state == IF st.state \in {"start_record", "eat_crnl"} /\ ~ eol
               THEN "start_field" ELSE st.state
      saved == [state |-> "start_field", field |-> << >>,
                row |-> Append(st.row, st.field), rows |-> st.rows]
      ended == [state |-> "eat_crnl", field |-> << >>, row |-> << >>,
                rows |-> Append(st.rows, Append(st.row, st.field))]
      added == [st EXCEPT !.field = Append(st.field, c)]
  IN CASE state \in {"start_record", "eat_crnl"} -> [st EXCEPT !.state = "eat_crnl"]
       [] state = "start_field" ->
            IF eol THEN ended
            ELSE IF c = "\"" THEN [st EXCEPT !.state = "in_quoted"]
            ELSE IF c = "," THEN saved
            ELSE [added EXCEPT !.state = "in_field"]
       [] state = "in_field" ->
            IF eol THEN ended ELSE IF c = "," THEN saved ELSE added
       [] state = "in_quoted" ->
            IF c = "\"" THEN [st EXCEPT !.state = "quote_in_quoted"] ELSE added
       [] OTHER ->
            IF c = "\"" THEN [added EXCEPT !.state = "in_quoted"]
            ELSE IF c = "," THEN saved
            ELSE IF eol THEN ended
            ELSE [added EXCEPT !.state = "in_field"]

ReaderStates ==
  {"start_record", "start_field", "in_field", "in_quoted", "quote_in_quoted", "eat_crnl"}

\* the reader after the characters lo..hi: the first half of the range is
\* read, then the second half from the state the first half ends in
RECURSIVE ReadRange(_, _, _, _)
ReadRange(chars, lo, hi, st) ==
  IF lo > hi THEN st
  ELSE IF lo = hi THEN ReaderStep(st, chars[lo])
  ELSE LET mid == (lo + hi) \div 2
           first == ReadRange(chars, lo, mid, st)
       IN IF first.state \in ReaderStates
          THEN ReadRange(chars, mid + 1, hi, first)
          ELSE first

\* csv.reader over the characters of a file: the rows of fields
ReadCsv(chars) ==
  LET st == ReadRange(chars, 1, Len(chars),
                      [state |-> "start_record", field |-> << >>, row |-> << >>,
                       rows |-> << >>])
  IN IF st.state \in {"start_record", "eat_crnl"} THEN st.rows
     ELSE Append(st.rows, Append(st.row, st.field))

\* int(s) for a string of decimal digits, -1 for any other string
RECURSIVE StrToInt(_)
StrToInt(s) ==
  IF s = << >> \/ \E i \in DOMAIN s : \A d \in DOMAIN Digits : Digits[d] # s[i]
  THEN -1
  ELSE LET last == (CHOOSE d \in DOMAIN Digits : Digits[d] = s[Len(s)]) - 1
       IN IF Len(s) = 1 THEN last
          ELSE 10 * StrToInt(SubSeq(s, 1, Len(s) - 1)) + last

\* csv.DictReader: the value of a row under a column of the header row
Column(header, row, name) ==
  IF \E k \in DOMAIN header : header[k] = name /\ k <= Len(row)
  THEN row[CHOOSE k \in DOMAIN header : header[k] = name /\ k <= Len(row)]
  ELSE << >>

\* C26: a non-empty result list written by save_to_csv and parsed again has
\* the header of the eight fixed columns and gives the same set of
\* (url, status_code, content_length) as the list
C26_CsvRoundTrip ==
  (probe.op = "csv" /\ probe.done /\ probe.args # << >>) =>
    /\ probe.out.written
    /\ LET rows == ReadCsv(probe.out.content)
       IN /\ Len(rows) = Len(probe.args) + 1
          /\ rows[1] = fieldnames
          /\ { << Column(rows[1], rows[k], fieldnames[1]),
                  StrToInt(Column(rows[1], rows[k], fieldnames[4])),
                  StrToInt(Column(rows[1], rows[k], fieldnames[5])) >> :
                 k \in 2..Len(rows) }
               = { << probe.args[k].url, probe.args[k].status_code,
                      probe.args[k].content_length >> : k \in DOMAIN probe.args }

\* C26 witness: a list of two records was written whose urls hold a comma and
\* a quote and whose titles hold a comma and a line break
C26_Witness ==
  /\ probe.op = "csv"
  /\ probe.done
  /\ probe.out.written
  /\ Len(probe.args) = 2
  /\ probe.args[1].url = <<"u",",","v">>
  /\ probe.args[2].url = <<"w","\"">>
  /\ probe.args[1].title = <<"l","\n","m">>
  /\ probe.args[2].title = <<"a",",","b">>

\* the _fetch_page calls made for the seed
SeedFetches == { i \in DOMAIN fetch_log : fetch_log[i].url = start_url }

\* C27 (as stated): for every configuration, when the first crawl() call
\* returns the seed was dequeued at depth 0, is in the visited set and was
\* passed to _fetch_page exactly once
C27_SeedFetchedOnce_AnyConfig ==
  (pc = "done" /\ calls = 1) =>
    /\ deq_log # << >>
    /\ deq_log[1].url = start_url /\ deq_log[1].depth = 0
    /\ start_url \in visited_urls
    /\ Cardinality(SeedFetches) = 1

\* C27 (amended): with max_pages >= 1 and max_depth >= 0, when a crawl() call
\* returns the seed was dequeued first, at depth 0, is in the visited set and
\* was passed to _fetch_page exactly once, at depth 0 and before any other
\* url, whether it passes the Scope Filter or not
C27_SeedFetchedOnce ==
  (pc = "done" /\ max_pages >= 1 /\ max_depth >= 0) =>
    /\ deq_log # << >>
    /\ deq_log[1].url = start_url /\ deq_log[1].depth = 0
    /\ start_url \in visited_urls
    /\ SeedFetches = {1}
    /\ fetch_log[1].depth = 0

\* C27 witness: a seed outside the allowed domains was fetched once, a page
\* that links to it was recorded later, and crawl() was called a second time
C27_Witness ==
  /\ pc = "done"
  /\ calls = 2
  /\ max_pages >= 1 /\ max_depth >= 0
  /\ ~ InScope(start_url)
  /\ SeedFetches = {1}
  /\ \E k \in DOMAIN crawled_data : \E check \in UrlsplitChecks :
       start_url \in LinkTargets(Web(crawled_data[k].url), crawled_data[k].url, check)

\* C28: for max_depth >= 0 every queue entry has a depth between 0 and
\* max_depth, the depths do not decrease from head to tail, and head and tail
\* differ by at most 1
C28_QueueDepthsOrdered ==
  max_depth >= 0 =>
    /\ \A q \in DOMAIN crawl_queue :
         0 <= crawl_queue[q].depth /\ crawl_queue[q].depth <= max_depth
    /\ \A q, r \in DOMAIN crawl_queue :
         q < r => crawl_queue[q].depth <= crawl_queue[r].depth
    /\ crawl_queue # << >> =>
         crawl_queue[Len(crawl_queue)].depth - Head(crawl_queue).depth <= 1

\* C28 witness: the queue holds entries of depth 1 followed by entries of
\* depth 2 = max_depth
C28_Witness ==
  /\ max_depth = 2
  /\ Len(crawl_queue) >= 3
  /\ Head(crawl_queue).depth = 1
  /\ crawl_queue[Len(crawl_queue)].depth = 2

\* C29: in the first crawl() call the counter equals the length of the result
\* list; a step that adds no record leaves the counter as it is; and once
\* the counter has reached max_pages the call dequeues no entry and makes no
\* _fetch_page call
C29_OnlyRecordsConsumeBudget ==
  /\ [](calls <= 1 => pages_crawled = Len(crawled_data))
  /\ [][(calls' = calls /\ Len(crawled_data') = Len(crawled_data))
          => pages_crawled' = pages_crawled]_vars
  /\ [][(calls' = calls /\ pages_crawled >= max_pages)
          => (deq_log' = deq_log /\ fetch_log' = fetch_log)]_vars

\* C29 witness: crawl() returned with the budget of at least two pages used
\* up and entries left in the queue, after more _fetch_page calls than
\* max_pages and more dequeues than _fetch_page calls
C29_Witness ==
  /\ pc = "done"
  /\ calls = 1
  /\ max_pages >= 2
  /\ pages_crawled = max_pages
  /\ crawl_queue # << >>
  /\ Len(fetch_log) > max_pages
  /\ Len(deq_log) > Len(fetch_log)

\* C30: a crawl() call made after the seed was processed makes no _fetch_page
\* call, adds no record and adds nothing to the visited set: it returns the
\* result list of the first call
C30_SecondCrawlAddsNothing ==
  [][(calls' >= 2 /\ start_url \in visited_urls)
       => /\ fetch_log' = fetch_log
          /\ crawled_data' = crawled_data
          /\ visited_urls' = visited_urls]_vars

\* C30 witness: the second crawl() call returned after it dequeued the seed
\* only, on an instance with two records and a failed fetch from the first
C30_Witness ==
  /\ calls = 2
  /\ pc = "done"
  /\ Len(deq_log) = 1
  /\ start_url \in visited_urls
  /\ Len(crawled_data) >= 2
  /\ \E i \in DOMAIN fetch_log : ~ fetch_log[i].ok

\* the jobs whose in-memory status entry has the given status
JobsWithStatus(status) ==
  { job_id \in DOMAIN crawl_status : crawl_status[job_id].status = status }

\* C31: whenever the in-memory status of a job is 'completed' its results
\* entry is present, so a client that saw 'completed' at the status endpoint
\* is never answered 'Results not found'; and a job whose status is 'error'
\* has no results entry
C31_CompletedHasResults ==
  /\ \A job_id \in JobsWithStatus("completed") : job_id \in DOMAIN crawl_results
  /\ \A job_id \in client.completed : get_crawl_results(job_id).code = 200
  /\ \A answer \in client.answers : answer.code = 200
  /\ \A job_id \in JobsWithStatus("error") : job_id \notin DOMAIN crawl_results

\* C31 witness: the client saw one job completed and was given its results,
\* while another job ended with status 'error' after its crawl had returned
C31_Witness ==
  /\ \E answer \in client.answers :
       /\ answer.code = 200
       /\ answer.job_id \in JobsWithStatus("completed")
  /\ \E r \in DOMAIN submissions :
       /\ submissions[r].thread = "finished"
       /\ submissions[r].job_id \in JobsWithStatus("error")
       /\ submissions[r].pages = 1

\* submission r went through start_crawl: its thread was started
Accepted(r) == submissions[r].thread \in ThreadPositions

\* C32: two accepted submissions never share a job_id, so of the submissions
\* received within one second (which get the same job_id) at most one is
\* accepted and has a crawler thread; and the status and results entries of
\* a job_id are assigned by one submission only, the one that holds the
\* database row of that job_id, which is the accepted one if there is one
C32_AcceptedJobIdsDistinct ==
  /\ \A r1, r2 \in DOMAIN submissions :
       (r1 # r2 /\ Accepted(r1) /\ Accepted(r2))
         => submissions[r1].job_id # submissions[r2].job_id
  /\ \A w \in writers :
       /\ submissions[w[2]].job_id = w[1]
       /\ submissions[w[2]].db_job_id # 0
  /\ \A w1, w2 \in writers : w1[1] = w2[1] => w1[2] = w2[2]
  /\ \A r \in DOMAIN submissions :
       Accepted(r) => \A w \in writers : w[1] = submissions[r].job_id => w[2] = r

\* C32 witness: of two submissions of the same second one ran to 'completed'
\* and was answered 200, having assigned the entries of the job_id, and the
\* other was answered 500 at the commit
C32_Witness ==
  \E r1, r2 \in DOMAIN submissions :
    /\ r1 # r2
    /\ submissions[r1].job_id = submissions[r2].job_id
    /\ submissions[r1].thread = "finished"
    /\ submissions[r1].response = 200
    /\ submissions[r1].job_id \in JobsWithStatus("completed")
    /\ submissions[r1].job_id \in DOMAIN crawl_results
    /\ <<submissions[r1].job_id, r1>> \in writers
    /\ submissions[r2].pc = "responded"
    /\ submissions[r2].response = 500
    /\ submissions[r2].db_job_id = 0

====
